---- MODULE Spec2Model ----
(***************************************************************************)
(* A model of the dataframe write path of the uchelper client library:     *)
(* UCClient.write_table / read_table / scan_table / create_as_table /      *)
(* register_as_table / merge_table (client.py) on top of                   *)
(* dataframe.write_table / read_table / scan_table / merge_table           *)
(* (dataframe.py), together with the catalog server's table record and the *)
(* files at the table's location.                                          *)
(*                                                                         *)
(* The catalog holds at most one table (the name every call refers to);    *)
(* the storage is what the file-format libraries keep at its location.     *)
(*                                                                         *)
(* Further parts: the REST functions of uc_api_wrapper.py against a        *)
(* catalog server holding catalogs, schemas and tables (SpecApi), the      *)
(* paging loop of its list functions one request at a time (SpecList),     *)
(* check_schema_equality on pairs of column lists (SpecEq), tables at      *)
(* local and remote locations (SpecLoc) and the write path of the earlier  *)
(* package src/uc_wrapper (SpecWrapper).                                   *)
(***************************************************************************)
EXTENDS Integers, Sequences, FiniteSets, Bags, TLC

VARIABLES
    table,   \* the catalog's record of the table, or NoTable
    store,   \* the data stored at the table's location, or NoData
    last,    \* the call in progress / its result, or Idle once returned
    calls,   \* the number of write_table calls made so far
    server   \* the catalogs, schemas and tables the catalog server holds

vars == <<table, store, last, calls, server>>

(***************************************************************************)
(* Bounds of the model.                                                    *)
(***************************************************************************)
MaxCols      == 2   \* columns of a DataFrame
MaxRows      == 1   \* rows of a DataFrame
MaxStored    == 3   \* rows kept at a location (appends stop there)
MaxWrites    == 1   \* write_table calls of a run of Spec
MaxSeqWrites == 2   \* write_table calls of a run of SpecSeq
MaxRegCalls  == 2   \* calls after register_as_table in a run of SpecReg
PageSize     == 1   \* entries of a page of a list response
MaxWrapperWrites == 2   \* write_table calls of a run of SpecWrapper
MaxEqCols    == 2   \* columns of a list compared by check_schema_equality
MaxEntities  == 5   \* catalogs, schemas and tables of the names called on the server
MaxSelWrites == 2   \* write_table calls of a run of SpecSel
MaxLocCalls  == 1   \* write_table and merge_table calls of a run of SpecLoc
MaxPages     == 3   \* pages after which the server of SpecList ends a listing

(***************************************************************************)
(* Python's None where an int is expected (partition_index, precision) and *)
(* a null cell of a row.                                                   *)
(***************************************************************************)
None == -1
NULL == None

NoTable == [exists |-> FALSE]
NoData  == [exists |-> FALSE]
Idle    == [op |-> "idle"]

(***************************************************************************)
(* models.py: FileType, and the write parameters of dataframe.py.          *)
(***************************************************************************)
FileType == {"DELTA", "CSV", "JSON", "AVRO", "PARQUET", "ORC", "TEXT"}
WriteMode == {"APPEND", "OVERWRITE"}
SchemaEvolution == {"STRICT", "MERGE", "OVERWRITE"}
TableType == {"MANAGED", "EXTERNAL"}

(***************************************************************************)
(* Polars data types: [k, precision, scale]; precision and scale are 0     *)
(* except for Decimal, whose precision may be None.                        *)
(***************************************************************************)
PlType(k) == [k |-> k, precision |-> 0, scale |-> 0]
PlDecimal(p, s) == [k |-> "Decimal", precision |-> p, scale |-> s]

(***************************************************************************)
(* Sequence helpers.                                                       *)
(***************************************************************************)
Range(s) == {s[i] : i \in 1..Len(s)}

RECURSIVE SeqFilter(_, _)
SeqFilter(s, keep) ==
    IF s = <<>> THEN <<>>
    ELSE IF Head(s) \in keep THEN <<Head(s)>> \o SeqFilter(Tail(s), keep)
         ELSE SeqFilter(Tail(s), keep)

\* list.index(x): 0-based position of the first occurrence of x
RECURSIVE IndexOf(_, _)
IndexOf(s, x) == IF Head(s) = x THEN 0 ELSE 1 + IndexOf(Tail(s), x)

\* sorted(s, key=...) is a stable sort: insertion after the last element
\* whose key is not greater.
RECURSIVE InsertSorted(_, _, _)
InsertSorted(s, c, f) ==
    IF s = <<>> THEN <<c>>
    ELSE IF Head(s)[f] <= c[f] THEN <<Head(s)>> \o InsertSorted(Tail(s), c, f)
         ELSE <<c>> \o s

RECURSIVE SortedBy(_, _)
SortedBy(s, f) ==
    IF s = <<>> THEN <<>>
    ELSE InsertSorted(SortedBy(SubSeq(s, 1, Len(s) - 1), f), s[Len(s)], f)

(***************************************************************************)
(* dataframe.polars_type_to_uc_type: the catalog type of a Polars type, or *)
(* ok = FALSE where the code raises UnsupportedOperationError.             *)
(***************************************************************************)
UcType(d, p, s) == [ok |-> TRUE, data_type |-> d, precision |-> p, scale |-> s]

polars_type_to_uc_type(t) ==
    CASE t.k = "Decimal" ->
            UcType("DECIMAL", IF t.precision # None THEN t.precision ELSE 0, t.scale)
      [] t.k = "Float32"  -> UcType("FLOAT", 0, 0)
      [] t.k = "Float64"  -> UcType("DOUBLE", 0, 0)
      [] t.k = "Int8"     -> UcType("BYTE", 0, 0)
      [] t.k = "Int16"    -> UcType("SHORT", 0, 0)
      [] t.k = "Int32"    -> UcType("INT", 0, 0)
      [] t.k = "Int64"    -> UcType("LONG", 0, 0)
      [] t.k = "Date"     -> UcType("DATE", 0, 0)
      [] t.k = "Datetime" -> UcType("TIMESTAMP", 0, 0)
      [] t.k = "Array"    -> UcType("ARRAY", 0, 0)
      [] t.k = "List"     -> UcType("ARRAY", 0, 0)
      [] t.k = "Struct"   -> UcType("STRUCT", 0, 0)
      [] t.k = "String"   -> UcType("STRING", 0, 0)
      [] t.k = "Binary"   -> UcType("BINARY", 0, 0)
      [] t.k = "Boolean"  -> UcType("BOOLEAN", 0, 0)
      [] t.k = "Null"     -> UcType("NULL", 0, 0)
      [] OTHER            -> [ok |-> FALSE, data_type |-> "NULL", precision |-> 0, scale |-> 0]

(***************************************************************************)
(* models.Column as df_schema_to_uc_schema builds it.                      *)
(***************************************************************************)
Column(name, t, position, partition_ind) ==
    [name |-> name, data_type |-> t.data_type,
     type_precision |-> t.precision, type_scale |-> t.scale,
     position |-> position, nullable |-> TRUE, partition_index |-> partition_ind]

\* every column type of the schema has a catalog type
SchemaSupported(schema) ==
    \A i \in 1..Len(schema) : polars_type_to_uc_type(schema[i].dtype).ok

(***************************************************************************)
(* dataframe.df_schema_to_uc_schema, for a schema every type of which is   *)
(* supported (the caller tests SchemaSupported first: the code raises      *)
(* UnsupportedOperationError out of the loop otherwise).                   *)
(***************************************************************************)
df_schema_to_uc_schema(schema, partition_cols) ==
    [i \in 1..Len(schema) |->
        Column(schema[i].name,
               polars_type_to_uc_type(schema[i].dtype),
               i - 1,
               IF schema[i].name \in Range(partition_cols)
                   THEN IndexOf(partition_cols, schema[i].name)
                   ELSE None)]

(***************************************************************************)
(* dataframe.check_schema_equality                                         *)
(***************************************************************************)
ColumnsAgree(left_col, right_col) ==
    /\ left_col.name = right_col.name
    /\ left_col.data_type = right_col.data_type
    /\ ~ ( /\ left_col.data_type = "DECIMAL"
           /\ \/ left_col.type_precision # right_col.type_precision
              \/ left_col.type_scale # right_col.type_scale )

\* lines 150-158: the loop over the zipped, sorted lists
AllAgree(l, r, n) == \A i \in 1..n : ColumnsAgree(l[i], r[i])

\* check_schema_equality without its comparison of the lengths, as
\* src/uc_wrapper/dataframe.py has it: zip stops at the shorter list
check_schema_equality_zip(left, right) ==
    AllAgree(SortedBy(left, "position"), SortedBy(right, "position"),
             IF Len(left) < Len(right) THEN Len(left) ELSE Len(right))

\* check_schema_equality without the two sorts
check_schema_equality_unsorted(left, right) ==
    IF Len(left) # Len(right) THEN FALSE
    ELSE AllAgree(left, right, Len(left))

check_schema_equality(left, right) ==
    IF Len(left) # Len(right) THEN FALSE
    ELSE AllAgree(SortedBy(left, "position"), SortedBy(right, "position"), Len(left))

(***************************************************************************)
(* dataframe.raise_for_schema_mismatch: "ok", or the error it raises.      *)
(***************************************************************************)
raise_for_schema_mismatch(schema, uc) ==
    IF ~ SchemaSupported(schema) THEN "UnsupportedOperationError"
    ELSE IF ~ check_schema_equality(df_schema_to_uc_schema(schema, <<>>), uc)
         THEN "SchemaMismatchError"
         ELSE "ok"

(***************************************************************************)
(* dataframe.get_partition_columns                                         *)
(***************************************************************************)
get_partition_columns(cols) ==
    SortedBy(SeqFilter(cols, {c \in Range(cols) : c.partition_index # None}),
             "partition_index")

ColumnNames(cols) == [i \in 1..Len(cols) |-> cols[i].name]

(***************************************************************************)
(* dataframe.uc_type_to_polars_type as read_table calls it (precision and  *)
(* scale left at their defaults of 0); k = "unsupported" where it raises.  *)
(***************************************************************************)
uc_type_to_polars_type(t) ==
    CASE t = "BOOLEAN"   -> PlType("Boolean")
      [] t = "BYTE"      -> PlType("Int8")
      [] t = "SHORT"     -> PlType("Int16")
      [] t = "INT"       -> PlType("Int32")
      [] t = "LONG"      -> PlType("Int64")
      [] t = "FLOAT"     -> PlType("Float32")
      [] t = "DOUBLE"    -> PlType("Float64")
      [] t = "DATE"      -> PlType("Date")
      [] t = "TIMESTAMP" -> PlType("Datetime")
      [] t = "STRING"    -> PlType("String")
      [] t = "BINARY"    -> PlType("Binary")
      [] t = "DECIMAL"   -> PlDecimal(0, 0)
      [] t = "ARRAY"     -> PlType("Array")
      [] t = "STRUCT"    -> PlType("Struct")
      [] t = "CHAR"      -> PlType("String")
      [] t = "NULL"      -> PlType("Null")
      [] OTHER           -> PlType("unsupported")

(***************************************************************************)
(* DataFrames: a schema (sequence of [name, dtype]) and a bag of rows; a   *)
(* row maps each column name to a cell value.  Stored rows carry the       *)
(* schema of the file they were written with; the location carries the     *)
(* format its files were written in.                                       *)
(***************************************************************************)
Vals == {0, 1}

Field(n, t) == [name |-> n, dtype |-> t]

SchemaNames(schema) == {schema[i].name : i \in 1..Len(schema)}

RECURSIVE SumCounts(_, _)
SumCounts(B, S) ==
    IF S = {} THEN 0
    ELSE LET x == CHOOSE y \in S : TRUE IN B[x] + SumCounts(B, S \ {x})

BagMap(B, F(_)) ==
    [y \in {F(x) : x \in DOMAIN B} |-> SumCounts(B, {x \in DOMAIN B : F(x) = y})]

BagFilter(B, P(_)) == [x \in {y \in DOMAIN B : P(y)} |-> B[x]]

Tag(schema, rows) ==
    LET T(r) == [sch |-> schema, vals |-> r] IN BagMap(rows, T)

Untag(rows) ==
    LET U(r) == r.vals IN BagMap(rows, U)

Stored(format, schema, rows) ==
    [exists |-> TRUE, format |-> format, schema |-> schema, rows |-> rows]

(***************************************************************************)
(* partition_filters / replace_where: not given, or a condition            *)
(* "column = value" on one column.                                         *)
(***************************************************************************)
NoFilter == [given |-> FALSE]
Filter(c, v) == [given |-> TRUE, col |-> c, val |-> v]

Matches(f, r) ==
    IF f.col \in DOMAIN r.vals THEN r.vals[f.col] = f.val ELSE FALSE

(***************************************************************************)
(* The file-format libraries, as far as the write path relies on them.     *)
(* Each returns [ok, store]: ok = FALSE when the library raises and        *)
(* leaves the location as it was.                                          *)
(***************************************************************************)
LibFail(st) == [ok |-> FALSE, store |-> st]
LibOk(st)   == [ok |-> TRUE, store |-> st]

\* the schema Delta's schema_mode = "merge" arrives at: the table's columns,
\* then the new columns of the data
MergedSchema(old, new) ==
    old \o SeqFilter(new, {f \in Range(new) : f.name \notin SchemaNames(old)})

MergeConflict(old, new) ==
    \E i \in 1..Len(old), j \in 1..Len(new) :
        old[i].name = new[j].name /\ old[i].dtype # new[j].dtype

\* a row rewritten to a schema: cells of columns it lacks are null
Conform(schema, r) ==
    [n \in SchemaNames(schema) |-> IF n \in DOMAIN r THEN r[n] ELSE NULL]

ConformAll(schema, rows) ==
    LET C(r) == [sch |-> schema, vals |-> Conform(schema, r.vals)]
    IN  BagMap(rows, C)

\* the partition of a row: its values in the partition columns
PartitionKey(names, r) == [i \in 1..Len(names) |-> r[names[i]]]

\* a row of the data satisfies the condition
Satisfies(f, r) == IF f.col \in DOMAIN r THEN r[f.col] = f.val ELSE FALSE

\* the pyarrow engine's check of the data against partition_filters: no row
\* of the data lies in a partition the table has and the filters leave out
Aligned(st, df, partition_by, f) ==
    \A r \in DOMAIN df.rows :
        \/ Satisfies(f, r)
        \/ \A x \in DOMAIN st.rows :
              PartitionKey(partition_by, x.vals) # PartitionKey(partition_by, r)

\* what the library refuses of a selective overwrite: partition_filters on a
\* column the table is not partitioned by, data not aligned with them, and
\* (engine rust) data that does not satisfy the predicate
FilterRefused(st, df, partition_by, engine, f) ==
    /\ f.given
    /\ IF engine = "pyarrow"
           THEN f.col \notin Range(partition_by) \/ ~ Aligned(st, df, partition_by, f)
           ELSE \E r \in DOMAIN df.rows : ~ Satisfies(f, r)

\* write_delta that overwrites everything, whatever the filter
write_delta_all(st, df, mode, schema_mode, partition_by, engine, filter) ==
    LET new  == Tag(df.schema, df.rows)
        kept == IF mode = "APPEND" THEN st.rows ELSE EmptyBag
    IN
    IF ~ (Range(partition_by) \subseteq SchemaNames(df.schema)) THEN LibFail(st)
    ELSE IF ~ st.exists THEN LibOk(Stored("DELTA", df.schema, new))
    ELSE IF schema_mode = "none" THEN
        IF df.schema # st.schema THEN LibFail(st)
        ELSE LibOk(Stored("DELTA", st.schema, kept (+) new))
    ELSE IF schema_mode = "merge" THEN
        IF engine = "pyarrow" \/ MergeConflict(st.schema, df.schema) THEN LibFail(st)
        ELSE LibOk(Stored("DELTA", MergedSchema(st.schema, df.schema),
                          ConformAll(MergedSchema(st.schema, df.schema), kept)
                              (+) ConformAll(MergedSchema(st.schema, df.schema), new)))
    ELSE LibOk(Stored("DELTA", df.schema, ConformAll(df.schema, kept) (+) new))

\* polars.DataFrame.write_delta (deltalake.write_deltalake)
write_delta(st, df, mode, schema_mode, partition_by, engine, filter) ==
    LET new  == Tag(df.schema, df.rows)
        kept == IF mode = "APPEND" THEN st.rows
                ELSE IF filter.given
                     THEN LET K(r) == ~ Matches(filter, r) IN BagFilter(st.rows, K)
                     ELSE EmptyBag
    IN
    IF ~ (Range(partition_by) \subseteq SchemaNames(df.schema)) THEN LibFail(st)
    ELSE IF ~ st.exists THEN LibOk(Stored("DELTA", df.schema, new))
    ELSE IF filter.given /\ filter.col \notin SchemaNames(st.schema) THEN LibFail(st)
    ELSE IF FilterRefused(st, df, partition_by, engine, filter) THEN LibFail(st)
    ELSE IF schema_mode = "none" THEN
        IF df.schema # st.schema THEN LibFail(st)
        ELSE LibOk(Stored("DELTA", st.schema, kept (+) new))
    ELSE IF schema_mode = "merge" THEN
        IF engine = "pyarrow" \/ MergeConflict(st.schema, df.schema) THEN LibFail(st)
        ELSE LET m == MergedSchema(st.schema, df.schema)
             IN  LibOk(Stored("DELTA", m, ConformAll(m, kept) (+) ConformAll(m, new)))
    ELSE \* schema_mode = "overwrite"
        LibOk(Stored("DELTA", df.schema, ConformAll(df.schema, kept) (+) new))

\* polars.DataFrame.write_parquet(file=path): one file, replaced
write_parquet(st, df) == LibOk(Stored("PARQUET", df.schema, Tag(df.schema, df.rows)))

\* write_parquet(use_pyarrow=True, partition_cols=...): new files in the
\* directories of the data's partitions; with existing_data_behavior =
\* "delete_matching" the files already in those directories are removed.
write_parquet_partitioned(st, df, names, delete_matching) ==
    LET keys == {PartitionKey(names, r) : r \in DOMAIN df.rows}
        old  == IF st.exists THEN st.rows ELSE EmptyBag
        K(r) == PartitionKey(names, r.vals) \notin keys
        kept == IF delete_matching THEN BagFilter(old, K) ELSE old
    IN
    IF ~ (Range(names) \subseteq SchemaNames(df.schema)) THEN LibFail(st)
    ELSE LibOk(Stored("PARQUET", df.schema, kept (+) Tag(df.schema, df.rows)))

\* write_csv that adds to the file instead of replacing it
write_csv_add(st, df) ==
    LibOk(Stored("CSV", df.schema,
                 (IF st.exists THEN st.rows ELSE EmptyBag) (+) Tag(df.schema, df.rows)))

\* polars.DataFrame.write_csv / write_avro: one file, replaced
write_csv(st, df) == LibOk(Stored("CSV", df.schema, Tag(df.schema, df.rows)))

write_avro(st, df) == LibOk(Stored("AVRO", df.schema, Tag(df.schema, df.rows)))

(***************************************************************************)
(* Storage locations and file paths.  A string is the sequence of its      *)
(* pieces, so that `+` is concatenation and str.startswith a comparison of *)
(* prefixes.  create_as_table and the dataframe functions only accept a    *)
(* location that starts with "file://".                                    *)
(***************************************************************************)
NoLocation     == <<"<None>">>
LocalLocation  == <<"file://", "/", "data/t">>
RemoteLocation == <<"s3://", "bucket/t">>
AbsolutePath   == <<"/", "data/t">>
RelativePath   == <<"data/t">>

\* str.startswith
StartsWith(s, prefix) ==
    Len(s) >= Len(prefix) /\ SubSeq(s, 1, Len(prefix)) = prefix

StartsWithFile(location) == StartsWith(location, <<"file://">>)

(***************************************************************************)
(* dataframe.write_table.  The result is                                   *)
(*   outcome   "ok" or the name of the exception raised                    *)
(*   is_none   the call returned None                                      *)
(*   columns   the list[Column] it returned (<<>> when it returned None)   *)
(*   store     the location's content afterwards                           *)
(*   writes    the number of physical writes that were carried out         *)
(*   writer    the library function that wrote                             *)
(***************************************************************************)
Raised(e, st) ==
    [outcome |-> e, is_none |-> TRUE, columns |-> <<>>, store |-> st,
     writes |-> 0, writer |-> "none"]

RaisedAfterWrite(e, st, w) ==
    [outcome |-> e, is_none |-> TRUE, columns |-> <<>>, store |-> st,
     writes |-> 1, writer |-> w]

ReturnedNone(st, w) ==
    [outcome |-> "ok", is_none |-> TRUE, columns |-> <<>>, store |-> st,
     writes |-> 1, writer |-> w]

ReturnedColumns(cols, st, w) ==
    [outcome |-> "ok", is_none |-> FALSE, columns |-> cols, store |-> st,
     writes |-> 1, writer |-> w]

\* lines 344-354, 393-399, 408-412, 421-425: after the write, compare the
\* schema with the recorded columns and report the new columns on a mismatch
AfterCheck(chk, schema, partition_names, st, w) ==
    IF chk = "ok" THEN ReturnedNone(st, w)
    ELSE IF chk = "SchemaMismatchError"
         THEN ReturnedColumns(df_schema_to_uc_schema(schema, partition_names), st, w)
         ELSE RaisedAfterWrite(chk, st, w)

ReportSchema(schema, tbl, partition_names, st, w) ==
    AfterCheck(raise_for_schema_mismatch(schema, tbl.columns), schema, partition_names, st, w)

\* lines 162-169 before a write: the error of a failed check
IfOk(chk, st, r) == IF chk = "ok" THEN r ELSE Raised(chk, st)

\* lines 318-322, 357, 378: the names of the table's partition columns
PartitionBy(tbl) == ColumnNames(get_partition_columns(tbl.columns))

\* lines 313-316: delta_write_options["schema_mode"]
DeltaSchemaMode(schema_evolution) ==
    IF schema_evolution = "OVERWRITE" THEN "overwrite"
    ELSE IF schema_evolution = "MERGE" THEN "merge" ELSE "none"

\* lines 309-311, 332-334: delta_write_options["engine"]
DeltaEngine(mode, partition_filters) ==
    IF mode = "OVERWRITE" /\ partition_filters.given THEN "pyarrow" ELSE "rust"

\* lines 332-337: partition_filters, or the predicate replace_where
DeltaFilter(mode, partition_filters, replace_where) ==
    IF mode = "OVERWRITE" /\ partition_filters.given THEN partition_filters
    ELSE IF mode = "OVERWRITE" /\ replace_where.given THEN replace_where
    ELSE NoFilter

\* lines 339-354: the outcome of df.write_delta and what is returned after it
DeltaWritten(w, tbl, st, schema_evolution) ==
    IF ~ w.ok THEN Raised("LibraryError", st)
    ELSE IF schema_evolution # "STRICT"
         THEN ReportSchema(w.store.schema, tbl, PartitionBy(tbl), w.store, "write_delta")
         ELSE ReturnedNone(w.store, "write_delta")

\* write_table_delta without the test for both arguments: partition_filters
\* takes precedence
write_table_delta_first(tbl, st, df, mode, schema_evolution, partition_filters, replace_where) ==
    IF schema_evolution = "STRICT" /\ raise_for_schema_mismatch(df.schema, tbl.columns) # "ok"
        THEN Raised(raise_for_schema_mismatch(df.schema, tbl.columns), st)
    ELSE DeltaWritten(write_delta(st, df, mode, DeltaSchemaMode(schema_evolution),
                                  PartitionBy(tbl), DeltaEngine(mode, partition_filters),
                                  DeltaFilter(mode, partition_filters, replace_where)),
                      tbl, st, schema_evolution)

\* lines 305-354: case FileType.DELTA, _, _
write_table_delta(tbl, st, df, mode, schema_evolution, partition_filters, replace_where) ==
    IF schema_evolution = "STRICT" /\ raise_for_schema_mismatch(df.schema, tbl.columns) # "ok"
        THEN Raised(raise_for_schema_mismatch(df.schema, tbl.columns), st)
    ELSE IF mode = "OVERWRITE" /\ partition_filters.given /\ replace_where.given
        THEN Raised("UnsupportedOperationError", st)
    ELSE DeltaWritten(write_delta(st, df, mode, DeltaSchemaMode(schema_evolution),
                                  PartitionBy(tbl), DeltaEngine(mode, partition_filters),
                                  DeltaFilter(mode, partition_filters, replace_where)),
                      tbl, st, schema_evolution)

\* lines 363-373: the outcome of the partitioned df.write_parquet
ParquetAppended(w, st) ==
    IF ~ w.ok THEN Raised("LibraryError", st)
    ELSE ReturnedNone(w.store, "write_parquet")

\* write_table_parquet_append without the test for partition columns
write_table_parquet_append_any(tbl, st, df) ==
    IfOk(raise_for_schema_mismatch(df.schema, tbl.columns), st,
         ParquetAppended(write_parquet_partitioned(st, df, PartitionBy(tbl), FALSE), st))

\* lines 356-373: case FileType.PARQUET, WriteMode.APPEND, SchemaEvolution.STRICT
write_table_parquet_append(tbl, st, df) ==
    IF Len(get_partition_columns(tbl.columns)) = 0
        THEN Raised("UnsupportedOperationError", st)
    ELSE IfOk(raise_for_schema_mismatch(df.schema, tbl.columns), st,
              ParquetAppended(write_parquet_partitioned(st, df, PartitionBy(tbl), FALSE), st))

\* lines 379-399: the outcome of df.write_parquet and what is returned after it
ParquetOverwritten(w, tbl, st, df) ==
    IF ~ w.ok THEN Raised("LibraryError", st)
    ELSE ReportSchema(df.schema, tbl, PartitionBy(tbl), w.store, "write_parquet")

\* lines 375-399: case FileType.PARQUET, WriteMode.OVERWRITE, _
write_table_parquet_overwrite(tbl, st, df, schema_evolution) ==
    IF schema_evolution = "STRICT" /\ raise_for_schema_mismatch(df.schema, tbl.columns) # "ok"
        THEN Raised(raise_for_schema_mismatch(df.schema, tbl.columns), st)
    ELSE ParquetOverwritten(IF Len(get_partition_columns(tbl.columns)) > 0
                                THEN write_parquet_partitioned(st, df, PartitionBy(tbl), TRUE)
                                ELSE write_parquet(st, df),
                            tbl, st, df)

\* lines 401-404 and 414-417: CSV / AVRO, OVERWRITE, STRICT
write_table_file_strict(tbl, st, df, w, writer) ==
    IfOk(raise_for_schema_mismatch(df.schema, tbl.columns), st, ReturnedNone(w.store, writer))

\* lines 406-412 and 419-425: CSV / AVRO, OVERWRITE, OVERWRITE
write_table_file_overwrite(tbl, st, df, w, writer) ==
    ReportSchema(df.schema, tbl, <<>>, w.store, writer)

\* lines 293-445
write_table(tbl, st, df, mode, schema_evolution, partition_filters, replace_where) ==
    IF ~ StartsWithFile(tbl.storage_location)
        THEN Raised("UnsupportedOperationError", st)
    ELSE IF mode = "APPEND" /\ schema_evolution = "OVERWRITE"
        THEN Raised("UnsupportedOperationError", st)
    ELSE IF tbl.file_type = "DELTA"
        THEN write_table_delta(tbl, st, df, mode, schema_evolution,
                               partition_filters, replace_where)
    ELSE IF tbl.file_type = "PARQUET" /\ mode = "APPEND" /\ schema_evolution = "STRICT"
        THEN write_table_parquet_append(tbl, st, df)
    ELSE IF tbl.file_type = "PARQUET" /\ mode = "OVERWRITE"
        THEN write_table_parquet_overwrite(tbl, st, df, schema_evolution)
    ELSE IF tbl.file_type = "CSV" /\ mode = "OVERWRITE" /\ schema_evolution = "STRICT"
        THEN write_table_file_strict(tbl, st, df, write_csv(st, df), "write_csv")
    ELSE IF tbl.file_type = "CSV" /\ mode = "OVERWRITE" /\ schema_evolution = "OVERWRITE"
        THEN write_table_file_overwrite(tbl, st, df, write_csv(st, df), "write_csv")
    ELSE IF tbl.file_type = "AVRO" /\ mode = "OVERWRITE" /\ schema_evolution = "STRICT"
        THEN write_table_file_strict(tbl, st, df, write_avro(st, df), "write_avro")
    ELSE IF tbl.file_type = "AVRO" /\ mode = "OVERWRITE" /\ schema_evolution = "OVERWRITE"
        THEN write_table_file_overwrite(tbl, st, df, write_avro(st, df), "write_avro")
    ELSE IF mode = "APPEND"
        THEN Raised("UnsupportedOperationError", st)
    ELSE IF schema_evolution = "MERGE"
        THEN Raised("UnsupportedOperationError", st)
    ELSE IF schema_evolution = "OVERWRITE"
        THEN Raised("UnsupportedOperationError", st)
    ELSE Raised("UnsupportedOperationError", st)

(***************************************************************************)
(* dataframe.read_table: [outcome, schema, rows].                          *)
(***************************************************************************)
ReadFailed(e) == [outcome |-> e, schema |-> <<>>, rows |-> EmptyBag]

ReadOk(schema, rows) == [outcome |-> "ok", schema |-> schema, rows |-> rows]

\* every stored file has the schema the location was last written with
Uniform(st) == \A r \in DOMAIN st.rows : r.sch = st.schema

RECURSIVE uc_schema_to_df_schema(_)
\* dataframe.uc_schema_to_df_schema, a dict comprehension: a name that comes
\* again keeps its place and takes the later type
uc_schema_to_df_schema(cols) ==
    IF cols = <<>> THEN <<>>
    ELSE IF \E i \in 1..(Len(cols) - 1) : cols[i].name = cols[Len(cols)].name
        THEN [i \in 1..Len(uc_schema_to_df_schema(SubSeq(cols, 1, Len(cols) - 1))) |->
                 IF uc_schema_to_df_schema(SubSeq(cols, 1, Len(cols) - 1))[i].name
                        = cols[Len(cols)].name
                     THEN Field(cols[Len(cols)].name,
                                uc_type_to_polars_type(cols[Len(cols)].data_type))
                 ELSE uc_schema_to_df_schema(SubSeq(cols, 1, Len(cols) - 1))[i]]
    ELSE Append(uc_schema_to_df_schema(SubSeq(cols, 1, Len(cols) - 1)),
                Field(cols[Len(cols)].name,
                      uc_type_to_polars_type(cols[Len(cols)].data_type)))

\* uc_type_to_polars_type raises for one of the columns
TypeRaises(cols) ==
    \E i \in 1..Len(cols) : uc_type_to_polars_type(cols[i].data_type).k = "unsupported"

\* the row of a file whose columns take the names of pl_schema, position by
\* position
Renamed_row(file_schema, pl_schema, r) ==
    [n \in {pl_schema[i].name : i \in 1..Len(pl_schema)} |->
        r[file_schema[CHOOSE i \in 1..Len(pl_schema) : pl_schema[i].name = n].name]]

\* pl.read_csv(source) for an empty pl_schema, pl.read_csv(source,
\* schema=pl_schema) otherwise: the file's columns take the names and types
\* of pl_schema, position by position.  Polars reads no DECIMAL from a CSV
\* file (test_dataframes.py 54, 73, 132, 162, 440): a pl_schema with a
\* Decimal type, which uc_schema_to_df_schema gives for a DECIMAL column,
\* fails
read_csv(st, pl_schema) ==
    IF Len(pl_schema) = 0 THEN ReadOk(st.schema, Untag(st.rows))
    ELSE IF \E i \in 1..Len(pl_schema) : pl_schema[i].dtype.k = "Decimal"
        THEN ReadFailed("LibraryError")
    ELSE IF Len(pl_schema) # Len(st.schema) THEN ReadFailed("LibraryError")
    ELSE LET R(r) == Renamed_row(st.schema, pl_schema, r)
         IN  ReadOk(pl_schema, BagMap(Untag(st.rows), R))

\* the match on table.file_type: hive_schema (PARQUET with partition
\* columns) and pl_schema (CSV) are built before the file is opened
read_table_at(tbl, st) ==
    IF tbl.file_type \notin {"DELTA", "PARQUET", "CSV", "AVRO"}
        THEN ReadFailed("NotImplementedError")
    ELSE IF tbl.file_type = "PARQUET" /\ TypeRaises(get_partition_columns(tbl.columns))
        THEN ReadFailed("UnsupportedOperationError")
    ELSE IF tbl.file_type = "CSV" /\ TypeRaises(tbl.columns)
        THEN ReadFailed("UnsupportedOperationError")
    ELSE IF ~ st.exists THEN ReadFailed("LibraryError")
    ELSE IF st.format # tbl.file_type THEN ReadFailed("LibraryError")
    ELSE IF tbl.file_type = "PARQUET" /\ ~ Uniform(st) THEN ReadFailed("LibraryError")
    ELSE IF tbl.file_type = "CSV" THEN read_csv(st, uc_schema_to_df_schema(tbl.columns))
    ELSE ReadOk(st.schema, Untag(st.rows))

\* read_table without the test of the location (lines 193-196)
read_table_any_location(tbl, st) == read_table_at(tbl, st)

read_table(tbl, st) ==
    IF ~ StartsWithFile(tbl.storage_location)
        THEN ReadFailed("UnsupportedOperationError")
    ELSE read_table_at(tbl, st)

(***************************************************************************)
(* dataframe.scan_table, collected: as read_table, but not for AVRO.       *)
(***************************************************************************)
scan_table(tbl, st) ==
    IF ~ StartsWithFile(tbl.storage_location)
        THEN ReadFailed("UnsupportedOperationError")
    ELSE IF tbl.file_type = "AVRO" THEN ReadFailed("UnsupportedOperationError")
    ELSE read_table(tbl, st)

(***************************************************************************)
(* utils.literal_to_*: the enum member of a literal, "invalid" where the   *)
(* code raises UnsupportedOperationError.  The client converts only what   *)
(* is not an enum member already.                                          *)
(***************************************************************************)
literal_to_tabletype(lit) ==
    CASE lit = "managed" -> "MANAGED" [] lit = "external" -> "EXTERNAL"
      [] OTHER -> "invalid"

literal_to_filetype(lit) ==
    CASE lit = "delta" -> "DELTA" [] lit = "csv" -> "CSV" [] lit = "json" -> "JSON"
      [] lit = "avro" -> "AVRO" [] lit = "parquet" -> "PARQUET" [] lit = "orc" -> "ORC"
      [] lit = "text" -> "TEXT" [] OTHER -> "invalid"

literal_to_writemode(lit) ==
    CASE lit = "append" -> "APPEND" [] lit = "overwrite" -> "OVERWRITE"
      [] OTHER -> "invalid"

literal_to_schemaevolution(lit) ==
    CASE lit = "strict" -> "STRICT" [] lit = "merge" -> "MERGE"
      [] lit = "overwrite" -> "OVERWRITE" [] OTHER -> "invalid"

(***************************************************************************)
(* The catalog server behind uc_api_wrapper.                               *)
(***************************************************************************)
\* get_table: the record, or DoesNotExistError (NOT_FOUND)
get_table(tbl) == IF tbl.exists THEN "ok" ELSE "DoesNotExistError"

\* create_table that replaces the record of a registered name
create_table_replace(tbl, new) == [outcome |-> "ok", table |-> new]

\* create_table: AlreadyExistsError (ALREADY_EXISTS) for a registered name;
\* the record the server keeps and returns has the file:// URI of a
\* storage_location sent as a bare absolute path
create_table(tbl, new) ==
    IF tbl.exists THEN [outcome |-> "AlreadyExistsError", table |-> tbl]
    ELSE [outcome |-> "ok",
          table |-> [new EXCEPT !.storage_location =
                                    IF StartsWith(@, <<"/">>) THEN <<"file://">> \o @ ELSE @]]

\* overwrite_table: replaces the registered record; server_ok = FALSE is a
\* request the server answers with an error
overwrite_table(tbl, new, server_ok) ==
    IF ~ tbl.exists THEN [outcome |-> "DoesNotExistError", table |-> tbl]
    ELSE IF ~ server_ok THEN [outcome |-> "Exception", table |-> tbl]
    ELSE [outcome |-> "ok", table |-> new]

(***************************************************************************)
(* UCClient.write_table: the result of dataframe.write_table, the table    *)
(* record afterwards and the number of catalog updates carried out.        *)
(***************************************************************************)
ClientRaised(e, tbl, st) ==
    [outcome |-> e, is_none |-> TRUE, columns |-> <<>>, table |-> tbl, store |-> st,
     writes |-> 0, writer |-> "none", updates |-> 0]

\* lines 394-399: the catalog update for a returned column list
UpdateCatalog(u, r) ==
    [outcome |-> IF u.outcome = "ok" THEN "ok" ELSE "Exception",
     is_none |-> FALSE, columns |-> r.columns,
     table |-> u.table, store |-> r.store,
     writes |-> r.writes, writer |-> r.writer,
     updates |-> IF u.outcome = "ok" THEN 1 ELSE 0]

\* AfterWrite that reports the columns to the catalog whenever write_table
\* did not return None, also when it raised
AfterWrite_on_raise(tbl, r, server_ok) ==
    IF r.outcome = "ok" /\ r.is_none
        THEN [outcome |-> r.outcome, is_none |-> r.is_none, columns |-> r.columns,
              table |-> tbl, store |-> r.store,
              writes |-> r.writes, writer |-> r.writer, updates |-> 0]
    ELSE UpdateCatalog(overwrite_table(tbl, [tbl EXCEPT !.columns = r.columns], server_ok), r)

\* lines 386-399: what follows dataframe.write_table
AfterWrite(tbl, r, server_ok) ==
    IF r.outcome # "ok" \/ r.is_none
        THEN [outcome |-> r.outcome, is_none |-> r.is_none, columns |-> r.columns,
              table |-> tbl, store |-> r.store,
              writes |-> r.writes, writer |-> r.writer, updates |-> 0]
    ELSE UpdateCatalog(overwrite_table(tbl, [tbl EXCEPT !.columns = r.columns], server_ok), r)

\* lines 381-384: the enum member of an argument given as a literal
AsWriteMode(mode_arg) ==
    IF mode_arg \in WriteMode THEN mode_arg ELSE literal_to_writemode(mode_arg)

AsSchemaEvolution(schema_evolution_arg) ==
    IF schema_evolution_arg \in SchemaEvolution THEN schema_evolution_arg
    ELSE literal_to_schemaevolution(schema_evolution_arg)

UCClient_write_table(tbl, st, df, mode_arg, schema_evolution_arg, partition_filters, replace_where, server_ok) ==
    IF AsSchemaEvolution(schema_evolution_arg) = "invalid" \/ AsWriteMode(mode_arg) = "invalid"
        THEN ClientRaised("UnsupportedOperationError", tbl, st)
    ELSE IF get_table(tbl) # "ok" THEN ClientRaised(get_table(tbl), tbl, st)
    ELSE AfterWrite(tbl,
                    write_table(tbl, st, df, AsWriteMode(mode_arg),
                                AsSchemaEvolution(schema_evolution_arg),
                                partition_filters, replace_where),
                    server_ok)

(***************************************************************************)
(* UCClient.create_as_table                                                *)
(***************************************************************************)
NoPartitionCols == [given |-> FALSE, cols |-> <<>>]
PartitionCols(names) == [given |-> TRUE, cols |-> names]

\* WithPartitionIndex that numbers the partition columns in the order of the
\* DataFrame's columns
WithPartitionIndex_df_order(cols, partition_cols) ==
    [i \in 1..Len(cols) |->
        IF cols[i].name \notin Range(partition_cols) THEN cols[i]
        ELSE [cols[i] EXCEPT !.partition_index =
                  Cardinality({j \in 1..(i - 1) : cols[j].name \in Range(partition_cols)})]]

\* lines 469-473: the partition index of a column named in partition_cols
WithPartitionIndex(cols, partition_cols) ==
    [i \in 1..Len(cols) |->
        IF cols[i].name \notin Range(partition_cols) THEN cols[i]
        ELSE [cols[i] EXCEPT !.partition_index = IndexOf(partition_cols, cols[i].name)]]

\* lines 446-449: the enum member of an argument given as a literal
AsFileType(file_type_arg) ==
    IF file_type_arg \in FileType THEN file_type_arg ELSE literal_to_filetype(file_type_arg)

AsTableType(table_type_arg) ==
    IF table_type_arg \in TableType THEN table_type_arg
    ELSE literal_to_tabletype(table_type_arg)

\* lines 464-473: the columns of the new table
NewColumns(df, partition_cols) ==
    IF partition_cols.given
        THEN WithPartitionIndex(df_schema_to_uc_schema(df.schema, <<>>), partition_cols.cols)
        ELSE df_schema_to_uc_schema(df.schema, <<>>)

\* lines 474-482: the Table handed to create_table
NewTable(file_type, table_type, cols, location) ==
    [exists |-> TRUE, file_type |-> file_type, table_type |-> table_type,
     columns |-> cols, storage_location |-> location,
     default_merge_columns |-> <<>>]

\* lines 483-487: create_table, then write_table with mode OVERWRITE
CreateAndWrite(c, tbl, st, df, server_ok) ==
    IF c.outcome # "ok" THEN ClientRaised(c.outcome, tbl, st)
    ELSE UCClient_write_table(c.table, st, df, "OVERWRITE", "STRICT",
                              NoFilter, NoFilter, server_ok)

\* CreateArgsError without the test of lines 465-468
CreateArgsError_partitions_any(df, file_type_arg, table_type_arg, location, partition_cols) ==
    IF AsFileType(file_type_arg) = "invalid" \/ AsTableType(table_type_arg) = "invalid"
        THEN "UnsupportedOperationError"
    ELSE IF AsTableType(table_type_arg) = "MANAGED"
        THEN "UnsupportedOperationError"
    ELSE IF location = NoLocation
        THEN "UnsupportedOperationError"
    ELSE IF ~ StartsWithFile(location)
        THEN "UnsupportedOperationError"
    ELSE IF ~ SchemaSupported(df.schema)
        THEN "UnsupportedOperationError"
    ELSE "ok"

\* lines 446-468: the error create_as_table raises before it builds the
\* Table and sends a request to the catalog, or "ok"
CreateArgsError(df, file_type_arg, table_type_arg, location, partition_cols) ==
    IF AsFileType(file_type_arg) = "invalid" \/ AsTableType(table_type_arg) = "invalid"
        THEN "UnsupportedOperationError"
    ELSE IF AsTableType(table_type_arg) = "MANAGED"
        THEN "UnsupportedOperationError"
    ELSE IF location = NoLocation
        THEN "UnsupportedOperationError"
    ELSE IF ~ StartsWithFile(location)
        THEN "UnsupportedOperationError"
    ELSE IF ~ SchemaSupported(df.schema)
        THEN "UnsupportedOperationError"
    ELSE IF partition_cols.given /\ AsFileType(file_type_arg) \notin {"DELTA", "PARQUET"}
        THEN "UnsupportedOperationError"
    ELSE "ok"

UCClient_create_as_table(tbl, st, df, file_type_arg, table_type_arg, location, partition_cols, server_ok) ==
    IF CreateArgsError(df, file_type_arg, table_type_arg, location, partition_cols) # "ok"
        THEN ClientRaised(CreateArgsError(df, file_type_arg, table_type_arg, location,
                                          partition_cols),
                          tbl, st)
    ELSE CreateAndWrite(create_table(tbl, NewTable(AsFileType(file_type_arg),
                                                   AsTableType(table_type_arg),
                                                   NewColumns(df, partition_cols), location)),
                        tbl, st, df, server_ok)

(***************************************************************************)
(* UCClient.register_as_table: the outcome, the table record afterwards,   *)
(* the number of reads of the file and of requests sent to the catalog.    *)
(***************************************************************************)
RegisterResult(e, tbl, reads, create_requests) ==
    [outcome |-> e, table |-> tbl, reads |-> reads, create_requests |-> create_requests]

\* lines 506-511: the location of a file path, <<>> where the code raises
AsLocation(filepath) ==
    IF StartsWithFile(filepath) THEN filepath
    ELSE IF ~ StartsWith(filepath, <<"/">>) THEN <<>>
    ELSE <<"file://">> \o filepath

\* what is stored at a location
DataAt(location, st) == IF location = LocalLocation THEN st ELSE NoData

\* RegisterColumns that sets no partition index
RegisterColumns_unpartitioned(d, partition_cols) == df_schema_to_uc_schema(d.schema, <<>>)

\* lines 522-533: the columns of the DataFrame read from the file
RegisterColumns(d, partition_cols) ==
    IF partition_cols.given
        THEN WithPartitionIndex(df_schema_to_uc_schema(d.schema, <<>>), partition_cols.cols)
        ELSE df_schema_to_uc_schema(d.schema, <<>>)

\* lines 521-534: what follows read_table
RegisterRead(tbl, new, d, file_type, partition_cols) ==
    IF d.outcome # "ok" THEN RegisterResult(d.outcome, tbl, 1, 0)
    ELSE IF ~ SchemaSupported(d.schema)
        THEN RegisterResult("UnsupportedOperationError", tbl, 1, 0)
    ELSE IF partition_cols.given /\ file_type \notin {"DELTA", "PARQUET"}
        THEN RegisterResult("UnsupportedOperationError", tbl, 1, 0)
    ELSE RegisterResult(
             create_table(tbl, [new EXCEPT !.columns = RegisterColumns(d, partition_cols)]).outcome,
             create_table(tbl, [new EXCEPT !.columns = RegisterColumns(d, partition_cols)]).table,
             1, 1)

\* lines 512-521: the Table with no columns, read_table on it
RegisterAt(tbl, st, location, file_type, partition_cols) ==
    RegisterRead(tbl, NewTable(file_type, "EXTERNAL", <<>>, location),
                 read_table(NewTable(file_type, "EXTERNAL", <<>>, location),
                            DataAt(location, st)),
                 file_type, partition_cols)

\* register_as_table without the test of lines 507-510
UCClient_register_as_table_relative(tbl, st, filepath, file_type_arg, partition_cols) ==
    IF AsFileType(file_type_arg) = "invalid"
        THEN RegisterResult("UnsupportedOperationError", tbl, 0, 0)
    ELSE RegisterAt(tbl, st,
                    IF StartsWithFile(filepath) THEN filepath ELSE <<"file://">> \o filepath,
                    AsFileType(file_type_arg), partition_cols)

UCClient_register_as_table(tbl, st, filepath, file_type_arg, partition_cols) ==
    IF AsFileType(file_type_arg) = "invalid"
        THEN RegisterResult("UnsupportedOperationError", tbl, 0, 0)
    ELSE IF AsLocation(filepath) = <<>>
        THEN RegisterResult("UnsupportedOperationError", tbl, 0, 0)
    ELSE RegisterAt(tbl, st, AsLocation(filepath), AsFileType(file_type_arg), partition_cols)

(***************************************************************************)
(* The default merge columns of a table: a list of column names kept in    *)
(* the table's record, empty for a new table; setting names that are not   *)
(* columns of the table is refused.                                        *)
(***************************************************************************)
set_table_default_merge_columns(tbl, merge_columns) ==
    IF ~ tbl.exists THEN [outcome |-> "DoesNotExistError", table |-> tbl]
    ELSE IF ~ (Range(merge_columns) \subseteq Range(ColumnNames(tbl.columns)))
        THEN [outcome |-> "Exception", table |-> tbl]
    ELSE [outcome |-> "ok", table |-> [tbl EXCEPT !.default_merge_columns = merge_columns]]

default_merge_columns(tbl) == tbl.default_merge_columns

(***************************************************************************)
(* dataframe.merge_table and UCClient.merge_table: the TableMerger that    *)
(* write_delta(mode="merge") returns, or the error raised.  Nothing is     *)
(* written before the merger is executed.                                  *)
(***************************************************************************)
NoCondition == [given |-> FALSE, terms |-> <<>>]
Condition(terms) == [given |-> TRUE, terms |-> terms]

\* "<source_alias>.<col> = <target_alias>.<col>"
EqualOn(source_alias, target_alias, col) == <<source_alias, col, target_alias, col>>

\* dataframe.get_default_merge_condition: the terms joined by " AND "
get_default_merge_condition(tbl, source_alias, target_alias) ==
    IF Len(default_merge_columns(tbl)) = 0 THEN [outcome |-> "Exception", terms |-> <<>>]
    ELSE [outcome |-> "ok",
          terms |-> [i \in 1..Len(default_merge_columns(tbl)) |->
                        EqualOn(source_alias, target_alias, default_merge_columns(tbl)[i])]]

MergeRaised(e) == [outcome |-> e, predicate |-> <<>>]

\* polars.DataFrame.write_delta(mode="merge"): a TableMerger on the Delta
\* table at the path
write_delta_merge(st, predicate) ==
    IF ~ st.exists THEN MergeRaised("LibraryError")
    ELSE IF st.format # "DELTA" THEN MergeRaised("LibraryError")
    ELSE [outcome |-> "ok", predicate |-> predicate]

\* merge_table without raise_for_schema_mismatch
merge_table_any_schema(tbl, st, df, merge_condition, source_alias, target_alias) ==
    IF ~ StartsWithFile(tbl.storage_location) THEN MergeRaised("UnsupportedOperationError")
    ELSE IF tbl.file_type # "DELTA" THEN MergeRaised("UnsupportedOperationError")
    ELSE IF ~ merge_condition.given
        THEN IF get_default_merge_condition(tbl, source_alias, target_alias).outcome # "ok"
                 THEN MergeRaised("Exception")
             ELSE write_delta_merge(st, get_default_merge_condition(tbl, source_alias,
                                                                   target_alias).terms)
    ELSE write_delta_merge(st, merge_condition.terms)

merge_table(tbl, st, df, merge_condition, source_alias, target_alias) ==
    IF ~ StartsWithFile(tbl.storage_location) THEN MergeRaised("UnsupportedOperationError")
    ELSE IF tbl.file_type # "DELTA" THEN MergeRaised("UnsupportedOperationError")
    ELSE IF raise_for_schema_mismatch(df.schema, tbl.columns) # "ok"
        THEN MergeRaised(raise_for_schema_mismatch(df.schema, tbl.columns))
    ELSE IF ~ merge_condition.given
        THEN IF get_default_merge_condition(tbl, source_alias, target_alias).outcome # "ok"
                 THEN MergeRaised("Exception")
             ELSE write_delta_merge(st, get_default_merge_condition(tbl, source_alias,
                                                                   target_alias).terms)
    ELSE write_delta_merge(st, merge_condition.terms)

UCClient_merge_table(tbl, st, df, merge_condition) ==
    IF get_table(tbl) # "ok" THEN MergeRaised(get_table(tbl))
    ELSE merge_table(tbl, DataAt(tbl.storage_location, st), df, merge_condition, "s", "t")

(***************************************************************************)
(* src/uc_wrapper, the earlier package: its check_schema_equality compares *)
(* the zipped column lists by name and data type, its write_table writes   *)
(* with APPEND and STRICT only and always returns None.  Its models.Column *)
(* and models.Table declare data_type and file_type under the aliases      *)
(* type_name and data_source_format and do not set populate_by_name        *)
(* (models.py 85-96, 133-149): built by the field names they raise         *)
(* ValidationError, parsed from the server's JSON or built by the aliases  *)
(* they are the values of uchelper.                                        *)
(***************************************************************************)
uc_wrapper_SchemaEvolution == {"STRICT", "UNION", "OVERWRITE"}

\* dataframe.py 114-118: the loop over zip(left, right)
NamesAndTypesAgree(l, r, n) ==
    \A i \in 1..n : l[i].name = r[i].name /\ l[i].data_type = r[i].data_type

\* len(zip(left, right))
ZipLen(left, right) == IF Len(left) < Len(right) THEN Len(left) ELSE Len(right)

uc_wrapper_check_schema_equality(left, right) ==
    NamesAndTypesAgree(SortedBy(left, "position"), SortedBy(right, "position"),
                       ZipLen(left, right))

\* models.py 85-96: the columns of a schema as Column parses them from the
\* aliases, without precision, scale or partition index
uc_wrapper_Columns(schema) ==
    [i \in 1..Len(schema) |->
        [Column(schema[i].name, polars_type_to_uc_type(schema[i].dtype), i - 1, None)
            EXCEPT !.type_precision = None, !.type_scale = None]]

\* dataframe.py 97-108: the loop builds Column(name=, data_type=, ...) by the
\* field names, so its first round raises: UnsupportedOperationError out of
\* polars_type_to_uc_type for a type without a catalog type, ValidationError
\* out of Column otherwise; only a schema without columns gets a list back
uc_wrapper_df_schema_to_uc_schema(schema) ==
    IF Len(schema) = 0 THEN [outcome |-> "ok", columns |-> <<>>]
    ELSE IF ~ polars_type_to_uc_type(schema[1].dtype).ok
        THEN [outcome |-> "UnsupportedOperationError", columns |-> <<>>]
    ELSE [outcome |-> "ValidationError", columns |-> <<>>]

\* dataframe.py 239-243, 259-263: the check of a STRICT append
uc_wrapper_schema_check(schema, cols) ==
    IF uc_wrapper_df_schema_to_uc_schema(schema).outcome # "ok"
        THEN uc_wrapper_df_schema_to_uc_schema(schema).outcome
    ELSE IF ~ uc_wrapper_check_schema_equality(
                  uc_wrapper_df_schema_to_uc_schema(schema).columns, cols)
        THEN "SchemaMismatchError"
    ELSE "ok"

\* dataframe.py 244-254: df.write_delta(mode="append")
uc_wrapper_delta_appended(w, st) ==
    IF ~ w.ok THEN Raised("LibraryError", st)
    ELSE ReturnedNone(w.store, "write_delta")

\* dataframe.write_table of uc_wrapper (225-306)
uc_wrapper_write_table(tbl, st, df, mode, schema_evolution) ==
    IF ~ StartsWithFile(tbl.storage_location) THEN Raised("UnsupportedOperationError", st)
    ELSE IF mode = "APPEND" /\ tbl.file_type = "DELTA" /\ schema_evolution = "STRICT"
        THEN IfOk(uc_wrapper_schema_check(df.schema, tbl.columns), st,
                  uc_wrapper_delta_appended(
                      write_delta(st, df, "APPEND", "none", PartitionBy(tbl), "rust", NoFilter),
                      st))
    ELSE IF mode = "APPEND" /\ tbl.file_type = "PARQUET" /\ schema_evolution = "STRICT"
        THEN IF Len(get_partition_columns(tbl.columns)) = 0
                 THEN Raised("UnsupportedOperationError", st)
             ELSE IfOk(uc_wrapper_schema_check(df.schema, tbl.columns), st,
                       ParquetAppended(
                           write_parquet_partitioned(st, df, PartitionBy(tbl), FALSE), st))
    ELSE IF mode = "APPEND" /\ tbl.file_type \in {"DELTA", "PARQUET"}
        THEN Raised("NotImplementedError", st)
    ELSE IF mode = "APPEND" THEN Raised("UnsupportedOperationError", st)
    ELSE Raised("NotImplementedError", st)

\* client.py 271-281: write_table returned None or raised, no catalog update
uc_wrapper_after_write(tbl, r) ==
    [outcome |-> r.outcome, is_none |-> r.is_none, columns |-> r.columns,
     table |-> tbl, store |-> r.store,
     writes |-> r.writes, writer |-> r.writer, updates |-> 0]

\* UCClient.write_table of uc_wrapper (client.py 249-281)
uc_wrapper_UCClient_write_table(tbl, st, df, mode, schema_evolution) ==
    IF get_table(tbl) # "ok" THEN ClientRaised(get_table(tbl), tbl, st)
    ELSE uc_wrapper_after_write(tbl, uc_wrapper_write_table(tbl, st, df, mode, schema_evolution))

\* uc_api_wrapper.create_table of uc_wrapper is not implemented: it raises
\* NotImplementedError and sends no request
uc_wrapper_create_table(tbl, new) == [outcome |-> "NotImplementedError", table |-> tbl]

\* a Table of uc_wrapper.models: EXTERNAL, at a local location, with the
\* columns of a schema and partition indexes; built by the field names
\* (file_type=, data_type=) it raises ValidationError, built by the aliases
\* it is the table the server's JSON parses to
uc_wrapper_Table(schema, file_type, partition_cols, by_alias) ==
    IF ~ by_alias THEN [outcome |-> "ValidationError", table |-> NoTable]
    ELSE [outcome |-> "ok",
          table |-> NewTable(file_type, "EXTERNAL",
                             IF partition_cols.given
                                 THEN WithPartitionIndex(uc_wrapper_Columns(schema),
                                                         partition_cols.cols)
                                 ELSE uc_wrapper_Columns(schema),
                             LocalLocation)]

(***************************************************************************)
(* The catalog server behind the REST endpoints: the catalogs, schemas and *)
(* tables it holds and its answers to the requests of uc_api_wrapper.  An  *)
(* entity is known by its kind and its path (catalog, schema, table name). *)
(***************************************************************************)
Null == "<null>"   \* JSON null / Python None of a string field

Entity(kind, parent, name, comment) ==
    [kind |-> kind, parent |-> parent, name |-> name, comment |-> comment]

PathOf(e) == e.parent \o <<e.name>>

Exists(srv, kind, path) == \E e \in srv : e.kind = kind /\ PathOf(e) = path

Lookup(srv, kind, path) == CHOOSE e \in srv : e.kind = kind /\ PathOf(e) = path

ParentExists(srv, kind, parent) ==
    CASE kind = "catalog" -> TRUE
      [] kind = "schema" -> Exists(srv, "catalog", parent)
      [] kind = "table" -> Exists(srv, "schema", parent)

\* the schemas and tables below a catalog, the tables below a schema
Within(srv, path) == {e \in srv : StartsWith(e.parent, path)}

\* the server as the tests find it: the catalog unity with the schema
\* default and four tables in it, each with its comment
DefaultTables ==
    [marksheet |-> "Managed table", marksheet_uniform |-> "Uniform table",
     numbers |-> "External table", user_countries |-> "Partitioned table"]
DefaultServer ==
    {Entity("catalog", <<>>, "unity", ""), Entity("schema", <<"unity">>, "default", "")}
        \cup {Entity("table", <<"unity", "default">>, n, DefaultTables[n]) :
                  n \in DOMAIN DefaultTables}

\* a response: response.ok, whether the body parses as JSON, the error_code
\* and the text of an error body, the parsed body of an OK response
OkResponse(body) ==
    [ok |-> TRUE, json |-> TRUE, error_code |-> "", text |-> <<>>, body |-> body]

ErrorResponse(code, message) ==
    [ok |-> FALSE, json |-> TRUE, error_code |-> code, text |-> <<message>>, body |-> <<>>]

Served(response, srv) == [response |-> response, server |-> srv]

\* POST /catalogs, /schemas, /tables
ServerPost(srv, e) ==
    IF ~ ParentExists(srv, e.kind, e.parent)
        THEN Served(ErrorResponse("NOT_FOUND", "not found"), srv)
    ELSE IF Exists(srv, e.kind, PathOf(e))
        THEN Served(ErrorResponse("ALREADY_EXISTS", "already exists"), srv)
    ELSE Served(OkResponse(e), srv \cup {e})

\* GET /<kind>/<full name>
ServerGet(srv, kind, path) ==
    IF ~ Exists(srv, kind, path) THEN Served(ErrorResponse("NOT_FOUND", "not found"), srv)
    ELSE Served(OkResponse(Lookup(srv, kind, path)), srv)

\* the text of the refusal to delete an entity that is not empty
NotEmptyText(kind) ==
    IF kind = "catalog" THEN "Cannot delete catalog with schemas"
    ELSE "Cannot delete schema with tables"

\* DELETE /<kind>/<full name>?force=...
ServerDelete(srv, kind, path, force) ==
    IF ~ Exists(srv, kind, path) THEN Served(ErrorResponse("NOT_FOUND", "not found"), srv)
    ELSE IF ~ force /\ Within(srv, path) # {}
        THEN Served(ErrorResponse("ABORTED", NotEmptyText(kind)), srv)
    ELSE Served(OkResponse(<<>>), (srv \ {Lookup(srv, kind, path)}) \ Within(srv, path))

\* the entity and what lies below it under a new name
Renamed(e, path, new_name) ==
    IF PathOf(e) = path /\ Len(e.parent) = Len(path) - 1 THEN [e EXCEPT !.name = new_name]
    ELSE IF StartsWith(e.parent, path)
        THEN [e EXCEPT !.parent = SubSeq(path, 1, Len(path) - 1) \o <<new_name>>
                                      \o SubSeq(e.parent, Len(path) + 1, Len(e.parent))]
    ELSE e

\* a comment that is null or empty leaves the comment as it is
WithComment(e, kind, path, comment) ==
    IF e.kind = kind /\ PathOf(e) = path /\ comment \notin {Null, ""}
        THEN [e EXCEPT !.comment = comment]
    ELSE e

\* PATCH /<kind>/<full name>: a null new_name or comment leaves it as it is
ServerPatch(srv, kind, path, new_name, comment) ==
    IF ~ Exists(srv, kind, path) THEN Served(ErrorResponse("NOT_FOUND", "not found"), srv)
    ELSE IF new_name = Null
        THEN Served(OkResponse(WithComment(Lookup(srv, kind, path), kind, path, comment)),
                    {WithComment(e, kind, path, comment) : e \in srv})
    ELSE IF Exists(srv, kind, SubSeq(path, 1, Len(path) - 1) \o <<new_name>>)
        THEN Served(ErrorResponse("ALREADY_EXISTS", "already exists"), srv)
    ELSE Served(OkResponse(Renamed(WithComment(Lookup(srv, kind, path), kind, path, comment),
                                   path, new_name)),
                {Renamed(WithComment(e, kind, path, comment), path, new_name) : e \in srv})

\* the order in which the server lists names
NameOrder == <<"c", "default", "marksheet", "marksheet_uniform", "numbers", "s", "t",
               "unity", "user_countries">>

\* the entities of a kind in a parent, in the server's order
Listed(srv, kind, parent) ==
    SeqFilter(NameOrder, {e.name : e \in {x \in srv : x.kind = kind /\ x.parent = parent}})

\* the names a page token leaves to be served: the token is the name the
\* next page starts with
Remaining(names, page_token) ==
    IF page_token = Null THEN names
    ELSE SeqFilter(names, {n \in Range(names) :
                              IndexOf(NameOrder, n) >= IndexOf(NameOrder, page_token)})

\* the token of the last page: null, or "" from the tables endpoint
EndToken(kind) == IF kind = "table" THEN "" ELSE Null

PageOf(srv, kind, parent, rem) ==
    [entries |-> [i \in 1..(IF Len(rem) < PageSize THEN Len(rem) ELSE PageSize) |->
                     Lookup(srv, kind, parent \o <<rem[i]>>)],
     next_page_token |-> IF Len(rem) > PageSize THEN rem[PageSize + 1] ELSE EndToken(kind)]

\* GET /<kind>?page_token=...&catalog_name=...&schema_name=...
ServerList(srv, kind, parent, page_token) ==
    IF ~ ParentExists(srv, kind, parent)
        THEN Served(ErrorResponse("NOT_FOUND", "not found"), srv)
    ELSE Served(OkResponse(PageOf(srv, kind, parent,
                                  Remaining(Listed(srv, kind, parent), page_token))),
                srv)

(***************************************************************************)
(* uc_api_wrapper: what each function makes of the server's response.      *)
(***************************************************************************)
SERVER_NOT_FOUND_ERROR == "NOT_FOUND"
SERVER_ALREADY_EXISTS_ERROR == "ALREADY_EXISTS"

\* str.upper, character by character
UpperChar(ch) ==
    CASE ch = "a" -> "A" [] ch = "b" -> "B" [] ch = "c" -> "C" [] ch = "d" -> "D"
      [] ch = "e" -> "E" [] ch = "f" -> "F" [] ch = "g" -> "G" [] ch = "h" -> "H"
      [] ch = "i" -> "I" [] ch = "j" -> "J" [] ch = "k" -> "K" [] ch = "l" -> "L"
      [] ch = "m" -> "M" [] ch = "n" -> "N" [] ch = "o" -> "O" [] ch = "p" -> "P"
      [] ch = "q" -> "Q" [] ch = "r" -> "R" [] ch = "s" -> "S" [] ch = "t" -> "T"
      [] ch = "u" -> "U" [] ch = "v" -> "V" [] ch = "w" -> "W" [] ch = "x" -> "X"
      [] ch = "y" -> "Y" [] ch = "z" -> "Z" [] OTHER -> ch

RECURSIVE Upper(_)
Upper(code) ==
    IF Len(code) = 0 THEN ""
    ELSE UpperChar(SubSeq(code, 1, 1)) \o Upper(SubSeq(code, 2, Len(code)))

\* `phrase in response.text`
Contains(text, phrase) == \E i \in 1..Len(text) : text[i] = phrase

\* the three helpers: "ok", or the exception raised; response.json() raises
\* for a body that is not JSON, and .upper() for an error_code that is null
\* (None has no upper; an absent error_code is read as "")
check_already_exists_response(response) ==
    IF response.ok THEN "ok"
    ELSE IF ~ response.json THEN "JSONDecodeError"
    ELSE IF response.error_code = Null THEN "AttributeError"
    ELSE IF Upper(response.error_code) = SERVER_ALREADY_EXISTS_ERROR THEN "AlreadyExistsError"
    ELSE "ok"

\* check_does_not_exist_response that compares error_code as it is
check_does_not_exist_response_exact(response) ==
    IF response.ok THEN "ok"
    ELSE IF ~ response.json THEN "JSONDecodeError"
    ELSE IF response.error_code = Null THEN "AttributeError"
    ELSE IF response.error_code = SERVER_NOT_FOUND_ERROR THEN "DoesNotExistError"
    ELSE "ok"

check_does_not_exist_response(response) ==
    IF response.ok THEN "ok"
    ELSE IF ~ response.json THEN "JSONDecodeError"
    ELSE IF response.error_code = Null THEN "AttributeError"
    ELSE IF Upper(response.error_code) = SERVER_NOT_FOUND_ERROR THEN "DoesNotExistError"
    ELSE "ok"

check_response_failed(response) ==
    IF response.ok THEN "ok"
    ELSE IF ~ response.json THEN "JSONDecodeError"
    ELSE "Exception"

ApiRaised(e) == [outcome |-> e, value |-> <<>>]
ApiReturned(value) == [outcome |-> "ok", value |-> value]

\* the checks of a function in their order, then the parsed body
Checked(first, second, third, response) ==
    IF first # "ok" THEN ApiRaised(first)
    ELSE IF second # "ok" THEN ApiRaised(second)
    ELSE IF third # "ok" THEN ApiRaised(third)
    ELSE ApiReturned(response.body)

create_catalog_unchecked(response) ==
    Checked("ok", check_response_failed(response), "ok", response)

create_catalog(response) ==
    Checked(check_already_exists_response(response), check_response_failed(response),
            "ok", response)

get_catalog(response) ==
    Checked(check_does_not_exist_response(response), check_response_failed(response),
            "ok", response)

update_catalog(response) ==
    Checked(check_already_exists_response(response), check_does_not_exist_response(response),
            check_response_failed(response), response)

create_schema(response) ==
    Checked(check_already_exists_response(response), check_response_failed(response),
            "ok", response)

get_schema(response) ==
    Checked(check_does_not_exist_response(response), check_response_failed(response),
            "ok", response)

update_schema(response) ==
    Checked(check_does_not_exist_response(response), check_already_exists_response(response),
            check_response_failed(response), response)

\* uc_api_wrapper.create_table / get_table on a response
create_table_response(response) ==
    Checked(check_already_exists_response(response), check_response_failed(response),
            "ok", response)

get_table_response(response) ==
    Checked(check_does_not_exist_response(response), check_response_failed(response),
            "ok", response)

\* uc_api_wrapper.update_table on a response: DoesNotExistError for a table
\* that does not exist
update_table(response) ==
    Checked(check_does_not_exist_response(response), check_response_failed(response),
            "ok", response)

\* delete_table returns None
delete_table(response) ==
    Checked(check_does_not_exist_response(response), check_response_failed(response),
            "ok", OkResponse(Null))

\* delete_catalog / delete_schema: True, False for the refusal to delete what
\* is not empty, or the exception
DeleteWithForce(response, refusal) ==
    IF check_does_not_exist_response(response) # "ok"
        THEN ApiRaised(check_does_not_exist_response(response))
    ELSE IF response.ok THEN ApiReturned(TRUE)
    ELSE IF Contains(response.text, refusal) THEN ApiReturned(FALSE)
    ELSE IF check_response_failed(response) # "ok"
        THEN ApiRaised(check_response_failed(response))
    ELSE ApiReturned(FALSE)

delete_catalog(response) == DeleteWithForce(response, "Cannot delete catalog with schemas")

delete_schema(response) == DeleteWithForce(response, "Cannot delete schema with tables")

NewName_always(name, new) == new.name

\* the new_name of an update request: None when the name stays
NewName(name, new) == IF new.name # name THEN new.name ELSE Null

\* what a list function makes of one page's response: list_catalogs reads
\* the body unchecked, list_schemas and list_tables check it first
PageRaised(kind, response) ==
    IF kind = "catalog"
        THEN IF ~ response.json THEN "JSONDecodeError"
             ELSE IF ~ response.ok THEN "KeyError"
             ELSE "ok"
    ELSE IF check_does_not_exist_response(response) # "ok"
        THEN check_does_not_exist_response(response)
    ELSE check_response_failed(response)

\* the test of the token that takes only null for the end of the listing
LastPage_null_only(token) == token = Null

\* `token is None or token == ""`
LastPage(token) == token = Null \/ token = ""

\* the loop of list_catalogs / list_schemas / list_tables against a server
RECURSIVE ListFrom(_, _, _, _, _)
RECURSIVE ListNext(_, _, _, _, _)
ListNext(srv, kind, parent, response, acc) ==
    IF PageRaised(kind, response) # "ok" THEN ApiRaised(PageRaised(kind, response))
    ELSE IF LastPage(response.body.next_page_token)
        THEN ApiReturned(acc \o response.body.entries)
    ELSE ListFrom(srv, kind, parent, response.body.next_page_token,
                  acc \o response.body.entries)

ListFrom(srv, kind, parent, page_token, acc) ==
    ListNext(srv, kind, parent, ServerList(srv, kind, parent, page_token).response, acc)

list_catalogs(srv) == ListFrom(srv, "catalog", <<>>, Null, <<>>)

list_schemas(srv, catalog) == ListFrom(srv, "schema", <<catalog>>, Null, <<>>)

list_tables(srv, catalog, schema) == ListFrom(srv, "table", <<catalog, schema>>, Null, <<>>)

\* a call of one of the functions: the function, the parent of the entity
\* (catalog name, schema name), its name, the entity passed, force
Call(op, parent, name, new, force) ==
    [op |-> op, parent |-> parent, name |-> name, new |-> new, force |-> force]

KindOf(op) ==
    CASE op \in {"create_catalog", "get_catalog", "update_catalog", "delete_catalog",
                 "list_catalogs"} -> "catalog"
      [] op \in {"create_schema", "get_schema", "update_schema", "delete_schema",
                 "list_schemas", "uc_api_wrapper.delete_schema"} -> "schema"
      [] OTHER -> "table"

\* the loop of list_catalogs / list_schemas / list_tables, one request at a
\* time. A listing in progress: the page_token of the next request and the
\* entries collected so far, with the page_tokens sent and the pages received
ListStarted(op) ==
    [op |-> op, pc |-> "request", token |-> Null, acc |-> <<>>,
     sent |-> <<>>, pages |-> <<>>, outcome |-> "running", value |-> <<>>]

\* the request raised e
ListRaised(l, e) ==
    [l EXCEPT !.pc = "done", !.sent = Append(l.sent, l.token),
              !.outcome = e, !.value = <<>>]

\* the page was added and the loop goes on with its token, or breaks
ListExtended(l, page) ==
    [l EXCEPT !.pc = IF LastPage(page.next_page_token) THEN "done" ELSE "request",
              !.token = page.next_page_token,
              !.acc = l.acc \o page.entries,
              !.sent = Append(l.sent, l.token),
              !.pages = Append(l.pages, page),
              !.outcome = IF LastPage(page.next_page_token) THEN "ok" ELSE "running",
              !.value = IF LastPage(page.next_page_token)
                            THEN l.acc \o page.entries ELSE <<>>]

\* one pass of the loop body: the request with page_token l.token is
\* answered with the response
ListStep(l, response) ==
    IF PageRaised(KindOf(l.op), response) # "ok"
        THEN ListRaised(l, PageRaised(KindOf(l.op), response))
    ELSE ListExtended(l, response.body)

\* the request of a call, answered by the server
Request(srv, c) ==
    CASE c.op \in {"create_catalog", "create_schema", "create_table"} ->
             ServerPost(srv, Entity(KindOf(c.op), c.parent, c.new.name, c.new.comment))
      [] c.op \in {"get_catalog", "get_schema", "get_table"} ->
             ServerGet(srv, KindOf(c.op), c.parent \o <<c.name>>)
      [] c.op \in {"update_catalog", "update_schema"} ->
             ServerPatch(srv, KindOf(c.op), c.parent \o <<c.name>>, NewName(c.name, c.new),
                         c.new.comment)
      [] c.op = "update_table" ->
             ServerPatch(srv, "table", c.parent \o <<c.name>>, Null, c.new.comment)
      [] c.op \in {"delete_catalog", "delete_schema", "delete_table"} ->
             ServerDelete(srv, KindOf(c.op), c.parent \o <<c.name>>,
                          c.force \/ c.op = "delete_table")

\* the function of a call applied to the response
Handle(op, response) ==
    CASE op = "create_catalog" -> create_catalog(response)
      [] op = "get_catalog" -> get_catalog(response)
      [] op = "update_catalog" -> update_catalog(response)
      [] op = "delete_catalog" -> delete_catalog(response)
      [] op = "create_schema" -> create_schema(response)
      [] op = "get_schema" -> get_schema(response)
      [] op = "update_schema" -> update_schema(response)
      [] op = "delete_schema" -> delete_schema(response)
      [] op = "create_table" -> create_table_response(response)
      [] op = "get_table" -> get_table_response(response)
      [] op = "update_table" -> update_table(response)
      [] op = "delete_table" -> delete_table(response)

(***************************************************************************)
(* uc_wrapper, the earlier package: the functions for catalogs and schemas *)
(* that differ from those of uchelper.  Its calls are those of UCClient,   *)
(* which hands each to the function of the same name, and of the function  *)
(* uc_api_wrapper.delete_schema.                                           *)
(***************************************************************************)
\* delete_catalog passes force as a bool, which requests writes as "True"
\* or "False"
uc_wrapper_ForceParam(force) == IF force THEN "True" ELSE "False"

\* how the server may read the query parameter force: "true" and "false" as
\* they are; another value it does not parse properly, it is taken for
\* either or the request is refused
ForceReadings(param) ==
    CASE param = "true" -> {"true"}
      [] param = "false" -> {"false"}
      [] OTHER -> {"true", "false", "refused"}

\* DELETE /<kind>/<full name>?force=... with the parameter read so
ServerDeleteRead(srv, kind, path, reading) ==
    IF reading = "refused" THEN Served(ErrorResponse("INVALID_ARGUMENT", "invalid"), srv)
    ELSE ServerDelete(srv, kind, path, reading = "true")

\* the response of a call that sends no request
NotSent ==
    [ok |-> FALSE, json |-> FALSE, error_code |-> "", text |-> <<"<not sent>">>,
     body |-> <<>>]

\* delete_catalog: `return response.ok`
uc_wrapper_delete_catalog(response) == ApiReturned(response.ok)

\* uc_api_wrapper.delete_schema, which has no parameter force and returns
\* None
uc_wrapper_delete_schema(response) ==
    Checked(check_does_not_exist_response(response), check_response_failed(response),
            "ok", OkResponse(Null))

\* UCClient.delete_schema calls delete_schema with force=force, a keyword
\* the function does not have
uc_wrapper_UCClient_delete_schema(catalog, schema, force) == ApiRaised("TypeError")

\* update_catalog: AlreadyExistsError before any request when the name
\* stays; ALREADY_EXISTS from the server is not checked for
uc_wrapper_update_catalog(name, new, response) ==
    IF name = new.name THEN ApiRaised("AlreadyExistsError")
    ELSE Checked(check_does_not_exist_response(response), check_response_failed(response),
                 "ok", response)

uc_wrapper_update_schema(response) ==
    Checked(check_does_not_exist_response(response), check_already_exists_response(response),
            check_response_failed(response), response)

\* the request of a call of uc_wrapper, answered by the server; update_*
\* always sends the name of the entity passed as new_name
uc_wrapper_Request(srv, c, reading) ==
    CASE c.op = "delete_catalog" -> ServerDeleteRead(srv, "catalog", <<c.name>>, reading)
      [] c.op = "delete_schema" -> Served(NotSent, srv)
      [] c.op = "uc_api_wrapper.delete_schema" ->
             ServerDelete(srv, "schema", c.parent \o <<c.name>>, FALSE)
      [] c.op = "update_catalog" ->
             IF c.name = c.new.name THEN Served(NotSent, srv)
             ELSE ServerPatch(srv, "catalog", <<c.name>>, c.new.name, c.new.comment)
      [] c.op = "update_schema" ->
             ServerPatch(srv, "schema", c.parent \o <<c.name>>, c.new.name, c.new.comment)
      [] OTHER -> Request(srv, c)

\* the function of a call of uc_wrapper applied to the response
uc_wrapper_Handle(c, response) ==
    CASE c.op = "delete_catalog" -> uc_wrapper_delete_catalog(response)
      [] c.op = "delete_schema" ->
             uc_wrapper_UCClient_delete_schema(c.parent[1], c.name, c.force)
      [] c.op = "uc_api_wrapper.delete_schema" -> uc_wrapper_delete_schema(response)
      [] c.op = "update_catalog" -> uc_wrapper_update_catalog(c.name, c.new, response)
      [] c.op = "update_schema" -> uc_wrapper_update_schema(response)
      [] OTHER -> Handle(c.op, response)

(***************************************************************************)
(* The inputs of the calls.                                                *)
(***************************************************************************)
\* the Polars types a column of each name may have; UInt32 is a type
\* polars_type_to_uc_type has no case for
TypesOf(n) ==
    CASE n = "a" -> {PlType("Int64"), PlType("String")}
      [] n = "b" -> {PlDecimal(2, 0), PlDecimal(2, 1), PlType("UInt32")}
      [] n = "p" -> {PlType("Int64")}

OptionalColumn(n) == {<<>>} \cup {<<Field(n, t)>> : t \in TypesOf(n)}

DfSchemas ==
    {s \in {x \o y \o z : x \in OptionalColumn("a"), y \in OptionalColumn("b"),
                          z \in OptionalColumn("p")} :
        Len(s) >= 1 /\ Len(s) <= MaxCols}

\* the schemas of the runs with several writes: "p" and possibly "a"
SeqSchemas == {s \in DfSchemas : SchemaNames(s) \subseteq {"a", "p"} /\ "p" \in SchemaNames(s)}

RECURSIVE BagOfSeq(_)
BagOfSeq(s) ==
    IF s = <<>> THEN EmptyBag ELSE SetToBag({Head(s)}) (+) BagOfSeq(Tail(s))

\* the row of a schema all of whose cells hold v
RowOf(schema, v) == [n \in SchemaNames(schema) |-> v]

ValueLists ==
    UNION {{s \in [1..n -> Vals] : \A i \in 1..(n - 1) : s[i] <= s[i + 1]} :
              n \in 1..MaxRows}

Frames(schemas) ==
    {[schema |-> s, rows |-> BagOfSeq([i \in 1..Len(v) |-> RowOf(s, v[i])])] :
        s \in schemas, v \in ValueLists}

DataFrames == Frames(DfSchemas)

\* the arguments of create_as_table calls for a name that is registered
AgainFrames == Frames({<<Field("p", PlType("Int64"))>>, <<Field("b", PlType("UInt32"))>>})
AgainPartitionColsArgs == {NoPartitionCols, PartitionCols(<<"p">>)}
SeqFrames == Frames(SeqSchemas)

\* DataFrames with a data column between two columns to partition by
PartitionedFrames ==
    Frames({<<Field("a", PlType("Int64")), Field("b", PlDecimal(2, 0)),
              Field("p", PlType("Int64"))>>})

ModeArgs == {"append", "overwrite"}
SchemaEvolutionArgs == {"strict", "merge", "overwrite"}
FileTypeArgs == {"delta", "csv", "json", "avro", "parquet", "orc", "text"}
TableTypeArgs == {"managed", "external"}
LocationArgs == {NoLocation, RemoteLocation, LocalLocation}
PartitionColsArgs ==
    {NoPartitionCols, PartitionCols(<<"p">>), PartitionCols(<<"x", "p">>),
     PartitionCols(<<"p", "a">>)}

\* the arguments of register_as_table and the files it finds: a file of a
\* format holds the schema and the rows its reader returns; a CSV file has
\* the column types read_csv infers
FilepathArgs == {LocalLocation, AbsolutePath, RelativePath, RemoteLocation}
RegPartitionColsArgs ==
    {NoPartitionCols, PartitionCols(<<"p">>), PartitionCols(<<"p", "a">>)}
FileFormats == {"DELTA", "PARQUET", "CSV", "AVRO"}
FileFrames ==
    SeqFrames \cup PartitionedFrames
        \cup Frames({<<Field("b", PlType("UInt32"))>>, <<Field("b", PlType("Float64"))>>})
Inferable(schema) ==
    \A i \in 1..Len(schema) : schema[i].dtype.k \in {"Int64", "Float64", "Boolean", "String"}

\* the arguments of merge_table and set_table_default_merge_columns
MergeFrames == SeqFrames \cup PartitionedFrames
MergeConditionArgs == {NoCondition, Condition(<<EqualOn("s", "t", "p")>>)}
MergeColumnsArgs == {<<>>, <<"p">>, <<"x">>}

PartitionFiltersArgs == {NoFilter, Filter("p", 0)}
ReplaceWhereArgs == {NoFilter, Filter("a", 0), Filter("p", 1)}

\* the names, the calls and the failing responses of the REST functions
CatalogNames == {"unity", "c"}
SchemaNamePool == {"default", "s"}
TableNames == {"numbers", "t"}
NoComment == ""
CommentArgs == {Null, "", "x"}

ParentsOf(kind) ==
    CASE kind = "catalog" -> {<<>>}
      [] kind = "schema" -> {<<c>> : c \in CatalogNames}
      [] kind = "table" -> {<<c, n>> : c \in CatalogNames, n \in SchemaNamePool}

NamesOf(kind) ==
    CASE kind = "catalog" -> CatalogNames
      [] kind = "schema" -> SchemaNamePool
      [] kind = "table" -> TableNames

NamedCalls(op) ==
    {Call(op, p, n, [name |-> n, comment |-> NoComment], FALSE) :
        p \in ParentsOf(KindOf(op)), n \in NamesOf(KindOf(op))}

CreateCalls == NamedCalls("create_catalog") \cup NamedCalls("create_schema")
                   \cup NamedCalls("create_table")

GetCalls == NamedCalls("get_catalog") \cup NamedCalls("get_schema")
                \cup NamedCalls("get_table")

UpdateCallsOf(op) ==
    {Call(op, p, n, [name |-> m, comment |-> k], FALSE) :
        p \in ParentsOf(KindOf(op)), n \in NamesOf(KindOf(op)),
        m \in NamesOf(KindOf(op)), k \in CommentArgs}

UpdateTableCalls ==
    {Call("update_table", p, n, [name |-> n, comment |-> k], FALSE) :
        p \in ParentsOf("table"), n \in TableNames, k \in CommentArgs}

UpdateCalls == UpdateCallsOf("update_catalog") \cup UpdateCallsOf("update_schema")
                   \cup UpdateTableCalls

DeleteCalls ==
    {[c EXCEPT !.force = f] :
        c \in NamedCalls("delete_catalog") \cup NamedCalls("delete_schema"), f \in BOOLEAN}
        \cup NamedCalls("delete_table")

ApiCalls == CreateCalls \cup GetCalls \cup UpdateCalls \cup DeleteCalls

\* the calls of uc_wrapper for catalogs and schemas
WrapperApiCalls ==
    {c \in ApiCalls : KindOf(c.op) # "table"}
        \cup {[c EXCEPT !.op = "uc_api_wrapper.delete_schema"] :
                  c \in NamedCalls("delete_schema")}

ListCalls ==
    {Call("list_catalogs", <<>>, Null, Null, FALSE)}
        \cup {Call("list_schemas", p, Null, Null, FALSE) : p \in ParentsOf("schema")}
        \cup {Call("list_tables", p, Null, Null, FALSE) : p \in ParentsOf("table")}

\* responses of a server that fails: error codes in upper, lower and mixed
\* case, an error without error_code, one whose error_code is null, a body
\* that is not JSON
NotJson == [ok |-> FALSE, json |-> FALSE, error_code |-> "", text |-> <<"<html>">>, body |-> <<>>]
Faults ==
    {ErrorResponse("NOT_FOUND", "not found"), ErrorResponse("not_found", "not found"),
     ErrorResponse("nOT_fOUND", "not found"), ErrorResponse("ALREADY_EXISTS", "exists"),
     ErrorResponse("already_exists", "exists"), ErrorResponse("INTERNAL", "failed"),
     ErrorResponse("", "failed"), ErrorResponse(Null, "failed"), NotJson}

\* the inputs of the calls of uc_wrapper: schemas of the columns a and p
WrapperSchemas == {s \in DfSchemas : SchemaNames(s) \subseteq {"a", "p"}}
WrapperFrames == Frames(WrapperSchemas)
WrapperFileTypes == {"DELTA", "PARQUET", "CSV"}
WrapperPartitionColsArgs == {NoPartitionCols, PartitionCols(<<"a">>), PartitionCols(<<"p">>)}

\* column lists for check_schema_equality: a column a of the type LONG,
\* DECIMAL(2, 0) or DECIMAL(2, 1) and columns b and c of the type LONG, at
\* the positions 0 and 1; the names of a list are distinct
EqPositions == {0, 1}
EqTypes(n) ==
    IF n = "a" THEN {PlType("Int64"), PlDecimal(2, 0), PlDecimal(2, 1)}
    ELSE {PlType("Int64")}
EqColumnsOf(n) ==
    {Column(n, polars_type_to_uc_type(t), pos, None) : t \in EqTypes(n), pos \in EqPositions}
EqColumns == EqColumnsOf("a") \cup EqColumnsOf("b") \cup EqColumnsOf("c")
ColumnLists ==
    {l \in UNION {[1..n -> EqColumns] : n \in 0..MaxEqCols} :
        \A i, j \in 1..Len(l) : i # j => l[i].name # l[j].name}

\* the tables handed to UCClient.create_table: at a local location given as
\* a URI or as a bare path and at a remote location, of the file types the
\* functions tell apart
LocFileTypes == {"DELTA", "PARQUET", "CSV", "JSON"}
LocTables == {NewTable(ft, "EXTERNAL", df_schema_to_uc_schema(s, <<>>), location) :
                 ft \in LocFileTypes, s \in SeqSchemas,
                 location \in {LocalLocation, AbsolutePath, RemoteLocation}}

\* the list functions and what a server may put on a page: up to PageSize
\* entities of the kind, and any token
ListOps == {"list_catalogs", "list_schemas", "list_tables"}
ListedPool(op) ==
    CASE op = "list_catalogs" -> {Entity("catalog", <<>>, n, NoComment) : n \in CatalogNames}
      [] op = "list_schemas" ->
             {Entity("schema", <<"unity">>, n, NoComment) : n \in SchemaNamePool}
      [] OTHER -> {Entity("table", <<"unity", "default">>, n, NoComment) : n \in TableNames}
PageEntries(op) == UNION {[1..n -> ListedPool(op)] : n \in 0..PageSize}
PageTokens == {Null, "", "t1", "t2"}
PageFaults == {ErrorResponse("NOT_FOUND", "not found"), ErrorResponse("INTERNAL", "failed"),
               NotJson}

StoredRows(st) == IF st.exists THEN BagCardinality(st.rows) ELSE 0

(***************************************************************************)
(* The state machine: a client issues one call at a time; `last` holds the *)
(* call and its result until the caller has taken it (Return).             *)
(***************************************************************************)
Init ==
    /\ table = NoTable
    /\ store = NoData
    /\ last = Idle
    /\ calls = 0
    /\ server = DefaultServer

\* the effect of a write_table call whose result is r
WriteTableDone(r, df, mode, schema_evolution, partition_filters, replace_where) ==
    /\ StoredRows(r.store) <= MaxStored
    /\ table' = r.table
    /\ store' = r.store
    /\ calls' = calls + 1
    /\ last' = [op |-> "write_table", df |-> df,
                mode |-> AsWriteMode(mode),
                schema_evolution |-> AsSchemaEvolution(schema_evolution),
                partition_filters |-> partition_filters.given,
                replace_where |-> replace_where.given,
                filters |-> <<partition_filters, replace_where>>,
                outcome |-> r.outcome, is_none |-> r.is_none, columns |-> r.columns,
                writes |-> r.writes, writer |-> r.writer, updates |-> r.updates]
    /\ UNCHANGED server

WriteTable(df, mode, schema_evolution, partition_filters, replace_where, server_ok) ==
    /\ last = Idle
    /\ WriteTableDone(UCClient_write_table(table, store, df, mode, schema_evolution,
                                           partition_filters, replace_where, server_ok),
                      df, mode, schema_evolution, partition_filters, replace_where)

\* the effect of a create_as_table call whose result is r
CreateAsTableDone(r, df, file_type, table_type, location, partition_cols) ==
    /\ StoredRows(r.store) <= MaxStored
    /\ table' = r.table
    /\ store' = r.store
    /\ last' = [op |-> "create_as_table", df |-> df,
                file_type |-> AsFileType(file_type),
                table_type |-> AsTableType(table_type),
                location |-> location, partition_cols |-> partition_cols,
                outcome |-> r.outcome,
                writes |-> r.writes, writer |-> r.writer, updates |-> r.updates,
                create_requests |->
                    IF CreateArgsError(df, file_type, table_type, location,
                                       partition_cols) = "ok"
                    THEN 1 ELSE 0]
    /\ UNCHANGED <<calls, server>>

CreateAsTable(df, file_type, table_type, location, partition_cols) ==
    /\ last = Idle
    /\ CreateAsTableDone(UCClient_create_as_table(table, store, df, file_type, table_type,
                                                  location, partition_cols, TRUE),
                         df, file_type, table_type, location, partition_cols)

\* the effect of a read_table call whose result is r
ReadTableDone(r) ==
    /\ last' = [op |-> "read_table", outcome |-> r.outcome,
                schema |-> r.schema, rows |-> r.rows]
    /\ UNCHANGED <<table, store, calls, server>>

\* UCClient.read_table: get_table, then dataframe.read_table
UCClient_read_table(tbl, st) ==
    IF get_table(tbl) = "ok" THEN read_table(tbl, st) ELSE ReadFailed(get_table(tbl))

ReadTable ==
    /\ last = Idle
    /\ ReadTableDone(UCClient_read_table(table, store))

\* UCClient.scan_table: get_table, then dataframe.scan_table
UCClient_scan_table(tbl, st) ==
    IF get_table(tbl) = "ok" THEN scan_table(tbl, st) ELSE ReadFailed(get_table(tbl))

\* the effect of a scan_table call whose collected result is r
ScanTableDone(r) ==
    /\ last' = [op |-> "scan_table", outcome |-> r.outcome,
                schema |-> r.schema, rows |-> r.rows]
    /\ UNCHANGED <<table, store, calls, server>>

ScanTable ==
    /\ last = Idle
    /\ ScanTableDone(UCClient_scan_table(table, store))

\* a file written to the location outside the catalog
PlaceFile(format, df) ==
    /\ last = Idle
    /\ ~ table.exists
    /\ ~ store.exists
    /\ format = "CSV" => Inferable(df.schema)
    /\ store' = Stored(format, df.schema, Tag(df.schema, df.rows))
    /\ UNCHANGED <<table, last, calls, server>>

\* the effect of a register_as_table call whose result is r
RegisterAsTableDone(r, filepath, file_type, partition_cols) ==
    /\ table' = r.table
    /\ last' = [op |-> "register_as_table", filepath |-> filepath,
                file_type |-> AsFileType(file_type), partition_cols |-> partition_cols,
                outcome |-> r.outcome, reads |-> r.reads,
                create_requests |-> r.create_requests]
    /\ UNCHANGED <<store, calls, server>>

RegisterAsTable(filepath, file_type, partition_cols) ==
    /\ last = Idle
    /\ RegisterAsTableDone(UCClient_register_as_table(table, store, filepath, file_type,
                                                      partition_cols),
                           filepath, file_type, partition_cols)

\* the effect of a set_table_default_merge_columns call whose result is r
SetDefaultMergeColumnsDone(r, merge_columns) ==
    /\ table' = r.table
    /\ calls' = calls + 1
    /\ last' = [op |-> "set_table_default_merge_columns",
                merge_columns |-> merge_columns, outcome |-> r.outcome]
    /\ UNCHANGED <<store, server>>

SetDefaultMergeColumns(merge_columns) ==
    /\ last = Idle
    /\ SetDefaultMergeColumnsDone(set_table_default_merge_columns(table, merge_columns),
                                  merge_columns)

\* the effect of a merge_table call whose result is r: the TableMerger is
\* returned, nothing is executed
MergeTableDone(r, df, merge_condition) ==
    /\ calls' = calls + 1
    /\ last' = [op |-> "merge_table", df |-> df, merge_condition |-> merge_condition,
                outcome |-> r.outcome, predicate |-> r.predicate]
    /\ UNCHANGED <<table, store, server>>

MergeTable(df, merge_condition) ==
    /\ last = Idle
    /\ MergeTableDone(UCClient_merge_table(table, store, df, merge_condition),
                      df, merge_condition)

\* the effect of a UCClient.create_table call whose result is r
CreateTableDone(r, new) ==
    /\ table' = r.table
    /\ last' = [op |-> "create_table", new |-> new, outcome |-> r.outcome]
    /\ UNCHANGED <<store, calls, server>>

\* UCClient.create_table: the Table is registered as it is given
CreateTable(new) ==
    /\ last = Idle
    /\ CreateTableDone(create_table(table, new), new)

\* the entities of the names that calls are made with
NamedByCalls(srv) == {e \in srv : e.kind # "table" \/ e.name \in TableNames}

\* the effect of a call of a REST function answered with a; the record of
\* the call keeps how many entities the server held below the named one
ApiCallDone(c, a, r, fault) ==
    /\ Cardinality(NamedByCalls(a.server)) <= MaxEntities
    /\ server' = a.server
    /\ last' = [op |-> c.op, call |-> c, response |-> a.response, fault |-> fault,
                outcome |-> r.outcome, value |-> r.value,
                below |-> Cardinality(Within(server, c.parent \o <<c.name>>))]
    /\ UNCHANGED <<table, store, calls>>

ApiAnswered(c, a, fault) == ApiCallDone(c, a, Handle(c.op, a.response), fault)

\* a call answered by the server
ApiCall(c) ==
    /\ last = Idle
    /\ ApiAnswered(c, Request(server, c), FALSE)

\* a call the server answers with an error of its own
ApiCallFailing(c, fault) ==
    /\ last = Idle
    /\ ApiAnswered(c, Served(fault, server), TRUE)

\* the readings of force the server may make in a call of uc_wrapper
ReadingsOf(c) ==
    IF c.op = "delete_catalog" THEN ForceReadings(uc_wrapper_ForceParam(c.force))
    ELSE {"none"}

WrapperApiAnswered(c, a) == ApiCallDone(c, a, uc_wrapper_Handle(c, a.response), FALSE)

\* a call of uc_wrapper answered by the server
WrapperApiCall(c, reading) ==
    /\ last = Idle
    /\ WrapperApiAnswered(c, uc_wrapper_Request(server, c, reading))

\* the effect of a list call whose first page is the response and whose
\* result is r
ApiListDone(c, response, r, fault) ==
    /\ last' = [op |-> c.op, call |-> c, response |-> response, fault |-> fault,
                outcome |-> r.outcome, value |-> r.value]
    /\ UNCHANGED <<table, store, calls, server>>

ApiListPaged(c, response, fault) ==
    ApiListDone(c, response, ListNext(server, KindOf(c.op), c.parent, response, <<>>), fault)

\* a list call answered by the server
ApiList(c) ==
    /\ last = Idle
    /\ ApiListPaged(c, ServerList(server, KindOf(c.op), c.parent, Null).response, FALSE)

\* a list call whose first request the server answers with an error of its own
ApiListFailing(c, fault) ==
    /\ last = Idle
    /\ ApiListPaged(c, fault, TRUE)

\* a list function is called: no entries, token = None
ListBegin(op) ==
    /\ last = Idle
    /\ last' = ListStarted(op)
    /\ UNCHANGED <<table, store, calls, server>>

\* the request of a listing in progress is answered with the response
ListAnswered(response) ==
    /\ last' = ListStep(last, response)
    /\ UNCHANGED <<table, store, calls, server>>

\* the server answers with a page; its MaxPages-th page ends the listing
ListPage(entries, next_page_token) ==
    /\ last # Idle
    /\ last.op \in ListOps
    /\ last.pc = "request"
    /\ entries \in PageEntries(last.op)
    /\ Len(last.pages) + 1 < MaxPages \/ next_page_token \in {Null, ""}
    /\ ListAnswered(OkResponse([entries |-> entries, next_page_token |-> next_page_token]))

\* the server answers with an error
ListPageFailing(fault) ==
    /\ last # Idle
    /\ last.op \in ListOps
    /\ last.pc = "request"
    /\ ListAnswered(fault)

\* the list function returns or raises
ListReturn ==
    /\ last # Idle
    /\ last.op \in ListOps
    /\ last.pc = "done"
    /\ last' = Idle
    /\ UNCHANGED <<table, store, calls, server>>

\* uc_wrapper: UCClient.create_table with a Table
WrapperCreateTableDone(c) ==
    /\ table' = c.table
    /\ last' = [op |-> "uc_wrapper_create_table", outcome |-> c.outcome]
    /\ UNCHANGED <<store, calls, server>>

\* the Table is built first: when that raises, create_table is not called
WrapperCreateTable(schema, file_type, partition_cols, by_alias) ==
    /\ last = Idle
    /\ Range(partition_cols.cols) \subseteq SchemaNames(schema)
    /\ WrapperCreateTableDone(
           IF uc_wrapper_Table(schema, file_type, partition_cols, by_alias).outcome # "ok"
               THEN [outcome |-> "ValidationError", table |-> table]
           ELSE uc_wrapper_create_table(
                    table, uc_wrapper_Table(schema, file_type, partition_cols, by_alias).table))

\* uc_wrapper: the effect of a write_table call whose result is r
WrapperWriteTableDone(r, df, mode, schema_evolution) ==
    /\ StoredRows(r.store) <= MaxStored
    /\ table' = r.table
    /\ store' = r.store
    /\ calls' = calls + 1
    /\ last' = [op |-> "uc_wrapper_write_table", df |-> df, mode |-> mode,
                schema_evolution |-> schema_evolution,
                outcome |-> r.outcome, writes |-> r.writes, writer |-> r.writer,
                updates |-> r.updates]
    /\ UNCHANGED server

WrapperWriteTable(df, mode, schema_evolution) ==
    /\ last = Idle
    /\ WrapperWriteTableDone(uc_wrapper_UCClient_write_table(table, store, df, mode,
                                                             schema_evolution),
                             df, mode, schema_evolution)

\* two column lists to compare
InitEq ==
    /\ table = NoTable
    /\ store = NoData
    /\ calls = 0
    /\ server = DefaultServer
    /\ last \in {[op |-> "columns", left |-> l, right |-> r] :
                    l \in ColumnLists, r \in ColumnLists}

\* check_schema_equality(left, right)
CheckSchemaEquality ==
    /\ last.op = "columns"
    /\ last' = [op |-> "check_schema_equality", left |-> last.left, right |-> last.right,
                result |-> check_schema_equality(last.left, last.right)]
    /\ UNCHANGED <<table, store, calls, server>>

Return ==
    /\ last # Idle
    /\ last' = Idle
    /\ UNCHANGED <<table, store, calls, server>>

\* one write_table call after the table's creation, over all the inputs;
\* create_as_table over all the inputs while no table is registered, and
\* over the DataFrames of the one column "p" for a name that is registered
Next ==
    \/ /\ last = Idle /\ calls < MaxWrites
       /\ \E df \in DataFrames, mode \in ModeArgs, se \in SchemaEvolutionArgs,
             ok \in BOOLEAN :
               WriteTable(df, mode, se, NoFilter, NoFilter, ok)
    \/ /\ last = Idle /\ calls = 0 /\ ~ table.exists
       /\ \E df \in DataFrames, ft \in FileTypeArgs, tt \in TableTypeArgs,
             loc \in LocationArgs, pc \in PartitionColsArgs :
               CreateAsTable(df, ft, tt, loc, pc)
    \/ /\ last = Idle /\ calls = 0 /\ table.exists
       /\ \E df \in AgainFrames, ft \in FileTypeArgs, tt \in TableTypeArgs,
             loc \in LocationArgs, pc \in AgainPartitionColsArgs :
               CreateAsTable(df, ft, tt, loc, pc)
    \/ ReadTable
    \/ ScanTable
    \/ Return

Spec == Init /\ [][Next]_vars

\* several write_table calls in a row, over the schemas of SeqSchemas, with
\* a catalog server that carries out every update
NextSeq ==
    \/ /\ last = Idle /\ calls < MaxSeqWrites
       /\ \E df \in SeqFrames, mode \in ModeArgs, se \in SchemaEvolutionArgs :
               WriteTable(df, mode, se, NoFilter, NoFilter, TRUE)
    \/ /\ last = Idle /\ calls = 0
       /\ \E df \in SeqFrames, ft \in FileTypeArgs, pc \in PartitionColsArgs :
               CreateAsTable(df, ft, "external", LocalLocation, pc)
    \/ /\ last = Idle /\ calls = 0 /\ ~ table.exists
       /\ \E df \in PartitionedFrames, ft \in {"delta", "parquet"} :
               CreateAsTable(df, ft, "external", LocalLocation, PartitionCols(<<"p", "a">>))
    \/ ReadTable
    \/ ScanTable
    \/ Return

SpecSeq == Init /\ [][NextSeq]_vars

\* write_table calls with partition_filters and replace_where, on DELTA
\* and PARQUET tables with and without the partition column "p"
NextSel ==
    \/ /\ last = Idle /\ calls < MaxSelWrites
       /\ \E df \in SeqFrames \cup AgainFrames, mode \in ModeArgs,
             se \in SchemaEvolutionArgs, pf \in PartitionFiltersArgs,
             rw \in ReplaceWhereArgs :
               WriteTable(df, mode, se, pf, rw, TRUE)
    \/ /\ last = Idle /\ calls = 0 /\ ~ table.exists
       /\ \E df \in SeqFrames, ft \in {"delta", "parquet"},
             pc \in {NoPartitionCols, PartitionCols(<<"p">>)} :
               CreateAsTable(df, ft, "external", LocalLocation, pc)
    \/ ReadTable
    \/ Return

SpecSel == Init /\ [][NextSel]_vars

\* files placed at the location, register_as_table over all the inputs,
\* then merge_table and set_table_default_merge_columns calls
NextReg ==
    \/ \E format \in FileFormats, df \in FileFrames : PlaceFile(format, df)
    \/ /\ last = Idle /\ calls = 0
       /\ \E filepath \in FilepathArgs, ft \in FileTypeArgs, pc \in RegPartitionColsArgs :
               RegisterAsTable(filepath, ft, pc)
    \/ /\ last = Idle /\ calls < MaxRegCalls
       /\ \E merge_columns \in MergeColumnsArgs : SetDefaultMergeColumns(merge_columns)
    \/ /\ last = Idle /\ calls < MaxRegCalls
       /\ \E df \in MergeFrames, cond \in MergeConditionArgs : MergeTable(df, cond)
    \/ ReadTable
    \/ Return

SpecReg == Init /\ [][NextReg]_vars

\* the REST functions for catalogs, schemas and tables over all the names;
\* failing responses while the server is as it started
NextApi ==
    \/ /\ last = Idle
       /\ \E c \in ApiCalls : ApiCall(c)
    \/ /\ last = Idle /\ server = DefaultServer
       /\ \E c \in ApiCalls, fault \in Faults : ApiCallFailing(c, fault)
    \/ /\ last = Idle
       /\ \E c \in ListCalls : ApiList(c)
    \/ /\ last = Idle /\ server = DefaultServer
       /\ \E c \in ListCalls, fault \in Faults : ApiListFailing(c, fault)
    \/ Return

SpecApi == Init /\ [][NextApi]_vars

\* uc_wrapper on a server that uchelper's client registers a table with:
\* create_table calls of uc_wrapper, which register nothing, and write_table
\* calls
NextWrapper ==
    \/ /\ last = Idle /\ ~ table.exists
       /\ \E s \in WrapperSchemas, ft \in WrapperFileTypes,
             pc \in WrapperPartitionColsArgs :
               /\ Range(pc.cols) \subseteq SchemaNames(s)
               /\ CreateTable(uc_wrapper_Table(s, ft, pc, TRUE).table)
    \/ /\ last = Idle /\ calls = 0
       /\ \E s \in WrapperSchemas, ft \in WrapperFileTypes,
             pc \in WrapperPartitionColsArgs, by_alias \in BOOLEAN :
               WrapperCreateTable(s, ft, pc, by_alias)
    \/ /\ last = Idle /\ calls < MaxWrapperWrites
       /\ \E df \in WrapperFrames, mode \in WriteMode, se \in uc_wrapper_SchemaEvolution :
               WrapperWriteTable(df, mode, se)
    \/ Return

SpecWrapper == Init /\ [][NextWrapper]_vars

\* the functions of uc_wrapper for catalogs and schemas over all the names
NextWrapperApi ==
    \/ /\ last = Idle
       /\ \E c \in WrapperApiCalls : \E reading \in ReadingsOf(c) : WrapperApiCall(c, reading)
    \/ Return

SpecWrapperApi == Init /\ [][NextWrapperApi]_vars

\* check_schema_equality on two column lists
NextEq == CheckSchemaEquality

SpecEq == InitEq /\ [][NextEq]_vars

\* tables registered at local and remote locations over data already at
\* the location, then reads, scans, writes and merges
NextLoc ==
    \/ \E format \in FileFormats, df \in SeqFrames : PlaceFile(format, df)
    \/ /\ last = Idle /\ calls = 0
       /\ \E new \in LocTables : CreateTable(new)
    \/ /\ last = Idle /\ calls < MaxLocCalls
       /\ \E df \in SeqFrames, mode \in ModeArgs, se \in SchemaEvolutionArgs :
               WriteTable(df, mode, se, NoFilter, NoFilter, TRUE)
    \/ /\ last = Idle /\ calls < MaxLocCalls
       /\ \E df \in SeqFrames, cond \in MergeConditionArgs : MergeTable(df, cond)
    \/ ReadTable
    \/ ScanTable
    \/ Return

SpecLoc == Init /\ [][NextLoc]_vars

\* the list functions against a server that answers each request with any
\* page and any token, or with an error; every request is answered
ListPageServed ==
    \E entries \in UNION {PageEntries(op) : op \in ListOps}, t \in PageTokens :
        ListPage(entries, t)

NextList ==
    \/ \E op \in ListOps : ListBegin(op)
    \/ ListPageServed
    \/ \E fault \in PageFaults : ListPageFailing(fault)
    \/ ListReturn

SpecList == Init /\ [][NextList]_vars /\ WF_vars(ListPageServed)

(***************************************************************************)
(* Vocabulary of the properties.                                           *)
(***************************************************************************)
\* a step in which a write_table call is made and carried out
WriteCall == last = Idle /\ last'.op = "write_table"

\* the recorded column at a position
ColumnAt(cols, pos) == CHOOSE c \in Range(cols) : c.position = pos

\* the DataFrame's schema differs from the recorded columns: in the number
\* of columns, or in the name, the data type or the DECIMAL precision/scale
\* at some position
SchemaDiffers(schema, cols) ==
    \/ Len(schema) # Len(cols)
    \/ \E i \in 1..Len(schema) :
          LET c == ColumnAt(cols, i - 1)
              t == polars_type_to_uc_type(schema[i].dtype)
          IN  \/ schema[i].name # c.name
              \/ ~ t.ok
              \/ t.data_type # c.data_type
              \/ /\ t.data_type = "DECIMAL"
                 /\ (t.precision # c.type_precision \/ t.scale # c.type_scale)

Partitioned(tbl) == \E i \in 1..Len(tbl.columns) : tbl.columns[i].partition_index # None

\* the combinations schema evolution STRICT supports
StrictSupports(tbl, mode) ==
    /\ StartsWithFile(tbl.storage_location)
    /\ \/ tbl.file_type = "DELTA"
       \/ tbl.file_type = "PARQUET" /\ (mode = "OVERWRITE" \/ Partitioned(tbl))
       \/ tbl.file_type \in {"CSV", "AVRO"} /\ mode = "OVERWRITE"

\* a STRICT write_table call with a DataFrame whose schema differs
StrictMismatchCall ==
    /\ WriteCall
    /\ table.exists
    /\ last'.schema_evolution = "STRICT"
    /\ SchemaDiffers(last'.df.schema, table.columns)

\* C1 (as stated): a STRICT write of a DataFrame whose schema differs from
\* the recorded columns raises before any physical write, SchemaMismatchError
\* on every combination STRICT supports, and leaves the stored data and the
\* recorded columns as they were.
C1_StrictMismatchRaisesSchemaMismatchError ==
    [][StrictMismatchCall =>
          /\ last'.outcome # "ok"
          /\ StrictSupports(table, last'.mode) => last'.outcome = "SchemaMismatchError"
          /\ last'.writes = 0
          /\ store' = store
          /\ table' = table]_vars

\* C1 (amended): a STRICT write of a DataFrame whose schema differs from the
\* recorded columns raises before any physical write and leaves the stored
\* data and the recorded columns as they were; on every combination STRICT
\* supports the error is SchemaMismatchError when every column type of the
\* DataFrame has a catalog type and UnsupportedOperationError when one has
\* none.
C1_StrictMismatchRaisesBeforeWrite ==
    [][StrictMismatchCall =>
          /\ last'.outcome # "ok"
          /\ StrictSupports(table, last'.mode) =>
                last'.outcome = IF SchemaSupported(last'.df.schema)
                                THEN "SchemaMismatchError"
                                ELSE "UnsupportedOperationError"
          /\ last'.writes = 0
          /\ store' = store
          /\ table' = table]_vars

\* a STRICT write of a DataFrame with another number of columns was refused
\* with SchemaMismatchError on a table that holds data
C1_Witness ==
    /\ last.op = "write_table"
    /\ last.schema_evolution = "STRICT"
    /\ last.outcome = "SchemaMismatchError"
    /\ last.writes = 0
    /\ table.exists /\ store.exists
    /\ Len(last.df.schema) # Len(table.columns)

\* C2: write_table for a name that is not registered creates the table and
\* writes df to it.
C2_WriteCreatesMissingTable ==
    [][(WriteCall /\ ~ table.exists) =>
          /\ last'.outcome = "ok"
          /\ table'.exists
          /\ store'.exists
          /\ Untag(store'.rows) = last'.df.rows]_vars

\* the columns a schema is recorded as equal the recorded columns
SchemaEquals(schema, cols) ==
    SchemaSupported(schema) /\ check_schema_equality(df_schema_to_uc_schema(schema, <<>>), cols)

\* every file stored at the location has a schema equal to the recorded columns
StoredSchemaEquals(st, cols) ==
    /\ SchemaEquals(st.schema, cols)
    /\ \A r \in DOMAIN st.rows : SchemaEquals(r.sch, cols)

\* the combinations of file type, write mode and schema evolution that the
\* documentation and the error messages of write_table give as supported
SupportedTriple(tbl, mode, schema_evolution) ==
    \/ /\ tbl.file_type = "DELTA"
       /\ ~ (mode = "APPEND" /\ schema_evolution = "OVERWRITE")
    \/ /\ tbl.file_type = "PARQUET"
       /\ \/ mode = "APPEND" /\ schema_evolution = "STRICT" /\ Partitioned(tbl)
          \/ mode = "OVERWRITE" /\ schema_evolution \in {"STRICT", "OVERWRITE"}
    \/ /\ tbl.file_type \in {"CSV", "AVRO"}
       /\ mode = "OVERWRITE" /\ schema_evolution \in {"STRICT", "OVERWRITE"}

\* a write_table call of the client, on a supported combination, in which
\* dataframe.write_table returned
WriteReturned ==
    /\ WriteCall
    /\ table.exists
    /\ SupportedTriple(table, last'.mode, last'.schema_evolution)
    /\ last'.outcome \in {"ok", "Exception"}

\* overwrite_table was called: it updated the catalog, or its failure was
\* raised as Exception
UpdateAttempted(l) == l.updates = 1 \/ l.outcome = "Exception"

\* C3: write_table returns None exactly when the schema of the
\* data now stored equals the recorded columns and a column list exactly
\* when it does not; the client updates the catalog if and only if the
\* returned value is not None.
C3_NoneIffStoredSchemaEqualsRecorded ==
    [][WriteReturned =>
          /\ last'.is_none <=> StoredSchemaEquals(store', table.columns)
          /\ UpdateAttempted(last') <=> ~ last'.is_none]_vars

\* the recorded columns have the names, data types and positions of a schema
ColumnsMatchSchema(cols, schema) ==
    /\ Len(cols) = Len(schema)
    /\ \A i \in 1..Len(schema) :
          LET t == polars_type_to_uc_type(schema[i].dtype)
          IN  /\ t.ok
              /\ cols[i].name = schema[i].name
              /\ cols[i].position = i - 1
              /\ cols[i].data_type = t.data_type
              /\ cols[i].type_precision = t.precision
              /\ cols[i].type_scale = t.scale

\* read_table succeeds and returns exactly these rows
ReadReturns(tbl, st, rows) ==
    /\ UCClient_read_table(tbl, st).outcome = "ok"
    /\ UCClient_read_table(tbl, st).rows = rows

\* a successful schema-changing write: mode OVERWRITE, schema evolution
\* OVERWRITE, a DataFrame whose schema differs from the recorded one
SchemaChangingWrite ==
    /\ WriteCall
    /\ table.exists
    /\ table.file_type \in {"DELTA", "PARQUET", "CSV", "AVRO"}
    /\ last'.mode = "OVERWRITE"
    /\ last'.schema_evolution = "OVERWRITE"
    /\ SchemaDiffers(last'.df.schema, table.columns)
    /\ last'.outcome = "ok"

\* the stored rows of a partitioned table that lie in partitions df has no
\* row of
RowsOutsideFrame(tbl, st, df) ==
    {r \in DOMAIN st.rows :
        PartitionKey(PartitionBy(tbl), r.vals) \notin
            {PartitionKey(PartitionBy(tbl), x) : x \in DOMAIN df.rows}}

\* C4: after a successful OVERWRITE/OVERWRITE write of a
\* DataFrame with another schema to a DELTA, PARQUET, CSV or AVRO table, the
\* recorded columns have the names, types and positions of the DataFrame's
\* schema and read_table returns the rows of the DataFrame.
C4_SchemaOverwriteRecordsAndReads ==
    [][SchemaChangingWrite =>
          /\ ColumnsMatchSchema(table'.columns, last'.df.schema)
          /\ ReadReturns(table', store', last'.df.rows)]_vars

\* the partitioning a column list records
PartitionPairs(cols) ==
    {<<cols[i].partition_index, cols[i].name>> :
        i \in {j \in 1..Len(cols) : cols[j].partition_index # None}}

\* C5: a schema-changing write (OVERWRITE/OVERWRITE) to a partitioned DELTA
\* or PARQUET table leaves the set of (partition_index, column name) pairs
\* recorded in the catalog as it was.
C5_SchemaOverwriteKeepsPartitioning ==
    [][(SchemaChangingWrite /\ table.file_type \in {"DELTA", "PARQUET"} /\ Partitioned(table)) =>
          PartitionPairs(table'.columns) = PartitionPairs(table.columns)]_vars

\* the columns of df the table lacks, in df's order
NewFields(tbl, df) ==
    SeqFilter(df.schema,
              {f \in Range(df.schema) : f.name \notin Range(ColumnNames(tbl.columns))})

\* an append with schema evolution MERGE to a DELTA table of a DataFrame
\* that has a column the table lacks and lacks a column the table has, whose
\* other columns have the recorded types and include the partition columns
MergeAppendCall ==
    /\ WriteCall
    /\ table.exists
    /\ table.file_type = "DELTA"
    /\ store.exists
    /\ SchemaEquals(store.schema, table.columns)
    /\ last'.mode = "APPEND"
    /\ last'.schema_evolution = "MERGE"
    /\ SchemaSupported(last'.df.schema)
    /\ NewFields(table, last'.df) # <<>>
    /\ \E i \in 1..Len(table.columns) :
          table.columns[i].name \notin SchemaNames(last'.df.schema)
    /\ ~ MergeConflict(store.schema, last'.df.schema)
    /\ Range(PartitionBy(table)) \subseteq SchemaNames(last'.df.schema)
    /\ last'.outcome # "Exception"

\* the column list the union is recorded as: the old columns as they were,
\* then the new columns without a partition index
UnionColumns(tbl, df) ==
    tbl.columns \o
    [i \in 1..Len(NewFields(tbl, df)) |->
        Column(NewFields(tbl, df)[i].name,
               polars_type_to_uc_type(NewFields(tbl, df)[i].dtype),
               Len(tbl.columns) + i - 1, None)]

\* the rows of both datasets, null where a row's source lacked the column
UnionRows(names, old, new) ==
    LET C(r) == [n \in names |-> IF n \in DOMAIN r THEN r[n] ELSE NULL]
    IN  BagMap(old, C) (+) BagMap(new, C)

\* C6: such an append succeeds; afterwards the recorded columns are the
\* union of the old columns (same names, types and partition indexes) and
\* the new column (partition_index None), and read_table returns all rows of
\* both datasets with nulls where a row's source lacked the column.
C6_MergeAppendRecordsUnion ==
    [][MergeAppendCall =>
          /\ last'.outcome = "ok"
          /\ table'.columns = UnionColumns(table, last'.df)
          /\ ReadReturns(table', store',
                         UnionRows(Range(ColumnNames(UnionColumns(table, last'.df))),
                                   Untag(store.rows), last'.df.rows))]_vars

\* C6 for tables whose partition indexes are 0, 1, ...: the case in which
\* the renumbering of C5 changes nothing
C6_MergeAppendRecordsUnionDense ==
    [][(MergeAppendCall /\ PartitionPairs(table.columns) \subseteq {<<0, "p">>}) =>
          /\ last'.outcome = "ok"
          /\ table'.columns = UnionColumns(table, last'.df)
          /\ ReadReturns(table', store',
                         UnionRows(Range(ColumnNames(UnionColumns(table, last'.df))),
                                   Untag(store.rows), last'.df.rows))]_vars

\* the writer of a file type
WriterOf(file_type) ==
    CASE file_type = "DELTA" -> "write_delta"
      [] file_type = "PARQUET" -> "write_parquet"
      [] file_type = "CSV" -> "write_csv"
      [] file_type = "AVRO" -> "write_avro"
      [] OTHER -> "none"

\* a write_table call for a registered table
TableWriteCall == WriteCall /\ table.exists

\* the call raised UnsupportedOperationError and nothing was written
RefusedUnwritten ==
    /\ last'.outcome = "UnsupportedOperationError"
    /\ last'.writes = 0
    /\ store' = store

\* C7: write_table is total over its decision table: a call that returns has
\* performed exactly one physical write through the writer of the table's
\* file type, a call never writes through another writer, and every triple
\* that is not supported (every triple on JSON, ORC and TEXT among them)
\* raises UnsupportedOperationError without a physical write.
C7_DecisionTableTotal ==
    [][TableWriteCall =>
          /\ last'.outcome \in {"ok", "Exception"} => last'.writes = 1
          /\ last'.writes = 1 => last'.writer = WriterOf(table.file_type)
          /\ last'.writes = 0 => last'.outcome \notin {"ok", "Exception"}
          /\ ~ SupportedTriple(table, last'.mode, last'.schema_evolution) => RefusedUnwritten]_vars

\* C7 apart from PARQUET with OVERWRITE and MERGE, the triple of C9
C7_DecisionTableTotalApartFromParquetMerge ==
    [][(TableWriteCall /\ ~ (table.file_type = "PARQUET" /\ last'.schema_evolution = "MERGE")) =>
          /\ last'.outcome \in {"ok", "Exception"} => last'.writes = 1
          /\ last'.writes = 1 => last'.writer = WriterOf(table.file_type)
          /\ last'.writes = 0 => last'.outcome \notin {"ok", "Exception"}
          /\ ~ SupportedTriple(table, last'.mode, last'.schema_evolution) => RefusedUnwritten]_vars

\* the tables and schema evolutions write mode APPEND is accepted for
AppendAccepted(tbl, schema_evolution) ==
    \/ tbl.file_type = "DELTA" /\ schema_evolution \in {"STRICT", "MERGE"}
    \/ tbl.file_type = "PARQUET" /\ Partitioned(tbl) /\ schema_evolution = "STRICT"

\* C8: write mode APPEND is accepted only for DELTA with STRICT or MERGE and
\* for PARQUET with a partition column and STRICT; every other APPEND call
\* raises UnsupportedOperationError and writes nothing.
C8_AppendOnlyDeltaAndPartitionedParquet ==
    [][(TableWriteCall /\ last'.mode = "APPEND") =>
          /\ ~ AppendAccepted(table, last'.schema_evolution) =>
                (RefusedUnwritten /\ table' = table)
          /\ last'.writes = 1 => AppendAccepted(table, last'.schema_evolution)
          /\ last'.outcome = "ok" => AppendAccepted(table, last'.schema_evolution)]_vars

\* an APPEND with STRICT of a DataFrame with the recorded schema to an
\* unpartitioned PARQUET table that holds data was refused
C8_Witness ==
    /\ last.op = "write_table"
    /\ last.mode = "APPEND"
    /\ last.schema_evolution = "STRICT"
    /\ table.exists /\ store.exists
    /\ table.file_type = "PARQUET"
    /\ ~ Partitioned(table)
    /\ SchemaEquals(last.df.schema, table.columns)
    /\ last.outcome = "UnsupportedOperationError"
    /\ last.writes = 0

\* C9: schema evolution MERGE on a table of another file type than DELTA,
\* with either write mode, raises UnsupportedOperationError and performs no
\* physical write and no catalog update.
C9_MergeOnlyForDelta ==
    [][(TableWriteCall /\ last'.schema_evolution = "MERGE" /\ table.file_type # "DELTA") =>
          /\ RefusedUnwritten
          /\ last'.updates = 0
          /\ table' = table]_vars

\* a successful write with mode OVERWRITE and STRICT, without
\* partition_filters or replace_where, to an unpartitioned DELTA, PARQUET,
\* CSV or AVRO table or to a partitioned DELTA table
StrictOverwriteDone ==
    /\ TableWriteCall
    /\ last'.mode = "OVERWRITE"
    /\ last'.schema_evolution = "STRICT"
    /\ ~ last'.partition_filters /\ ~ last'.replace_where
    /\ last'.outcome = "ok"
    /\ table.file_type \in {"DELTA", "PARQUET", "CSV", "AVRO"}
    /\ Partitioned(table) => table.file_type = "DELTA"

\* read_table, and scan_table where it is supported (not AVRO), return
\* exactly the rows of the DataFrame of the call as a multiset
ReadsBackFrame ==
    /\ ReadReturns(table', store', last'.df.rows)
    /\ table.file_type # "AVRO" =>
          /\ UCClient_scan_table(table', store').outcome = "ok"
          /\ UCClient_scan_table(table', store').rows = last'.df.rows

\* a column of the type DECIMAL is recorded
HasDecimalColumn(cols) == \E i \in 1..Len(cols) : cols[i].data_type = "DECIMAL"

\* C10 (as stated): after such a write read_table, and scan_table where it
\* is supported, return exactly the rows of df as a multiset, whatever the
\* table held before.
C10_StrictOverwriteReadsBackFrame ==
    [][StrictOverwriteDone => ReadsBackFrame]_vars

\* C10 (amended): after such a write to a table that is not a CSV table with
\* a DECIMAL column, read_table, and scan_table where it is supported,
\* return exactly the rows of df as a multiset, whatever the table held
\* before.
C10_StrictOverwriteReadsBackUnlessCsvDecimal ==
    [][(StrictOverwriteDone /\ ~ (table.file_type = "CSV" /\ HasDecimalColumn(table.columns)))
          => ReadsBackFrame]_vars

\* a STRICT overwrite of a CSV table that held another row was read back:
\* the rows returned are the one row of the DataFrame
C10_Witness ==
    /\ last.op = "write_table"
    /\ last.mode = "OVERWRITE"
    /\ last.schema_evolution = "STRICT"
    /\ last.outcome = "ok"
    /\ table.file_type = "CSV"
    /\ ~ HasDecimalColumn(table.columns)
    /\ BagCardinality(last.df.rows) = 1
    /\ ReadReturns(table, store, last.df.rows)
    /\ UCClient_scan_table(table, store).rows = last.df.rows

\* the rows a location holds
RowsAt(st) == IF st.exists THEN st.rows ELSE EmptyBag

\* a successful append with schema evolution STRICT
StrictAppendDone ==
    /\ TableWriteCall
    /\ last'.mode = "APPEND"
    /\ last'.schema_evolution = "STRICT"
    /\ last'.outcome = "ok"

\* C11: after a successful APPEND with STRICT to a DELTA table or a
\* partitioned PARQUET table that held the rows D, read_table returns the
\* multiset union of D and the DataFrame's rows: no row held before is lost
\* or changed and every row of the DataFrame is there once per append, so
\* that successive appends accumulate.
C11_StrictAppendAccumulates ==
    [][StrictAppendDone =>
          /\ table.file_type = "DELTA" \/ (table.file_type = "PARQUET" /\ Partitioned(table))
          /\ ReadReturns(table', store', Untag(RowsAt(store)) (+) last'.df.rows)]_vars

\* the partitions (combinations of partition-column values) of a DataFrame
PartitionsOf(tbl, df) == {PartitionKey(PartitionBy(tbl), x) : x \in DOMAIN df.rows}

\* the stored rows of the partitions the DataFrame has no row of
RowsKept(tbl, st, df) ==
    LET K(r) == PartitionKey(PartitionBy(tbl), r.vals) \notin PartitionsOf(tbl, df)
    IN  BagFilter(st.rows, K)

\* a successful write with mode OVERWRITE, and schema evolution STRICT or
\* OVERWRITE, to a partitioned PARQUET table
PartitionOverwriteDone ==
    /\ TableWriteCall
    /\ table.file_type = "PARQUET"
    /\ Partitioned(table)
    /\ store.exists
    /\ last'.mode = "OVERWRITE"
    /\ last'.schema_evolution \in {"STRICT", "OVERWRITE"}
    /\ last'.outcome = "ok"

\* C12: mode OVERWRITE on a partitioned PARQUET table replaces the rows of
\* the partitions that occur in df by df's rows and leaves the rows of every
\* other partition as they were; those rows stay readable (read_table
\* returns them together with df's rows); the table holds exactly df's rows
\* only when df covers every partition it held.
C12_OverwriteReplacesCommonPartitions ==
    [][PartitionOverwriteDone =>
          /\ store'.rows = RowsKept(table, store, last'.df)
                               (+) Tag(last'.df.schema, last'.df.rows)
          /\ (Untag(store'.rows) = last'.df.rows) <=>
                (RowsOutsideFrame(table, store, last'.df) = {})
          /\ ReadReturns(table', store',
                         Untag(RowsKept(table, store, last'.df)) (+) last'.df.rows)]_vars

\* C12 for a DataFrame with the schema of the files the table holds (under
\* schema evolution STRICT every accepted DataFrame of a readable table)
C12_OverwriteReplacesCommonPartitionsSameSchema ==
    [][(PartitionOverwriteDone /\ Uniform(store) /\ store.schema = last'.df.schema) =>
          /\ store'.rows = RowsKept(table, store, last'.df)
                               (+) Tag(last'.df.schema, last'.df.rows)
          /\ (Untag(store'.rows) = last'.df.rows) <=>
                (RowsOutsideFrame(table, store, last'.df) = {})
          /\ ReadReturns(table', store',
                         Untag(RowsKept(table, store, last'.df)) (+) last'.df.rows)]_vars

\* the condition of a selective overwrite: partition_filters, or else the
\* predicate replace_where
FilterOf(l) == IF l.partition_filters THEN l.filters[1] ELSE l.filters[2]

\* the stored rows the condition does not match
RowsNotMatching(st, f) ==
    LET K(r) == ~ Matches(f, r) IN BagFilter(st.rows, K)

\* a successful selective overwrite of a DELTA table: mode OVERWRITE with
\* replace_where, or with partition_filters on a partitioned table
SelectiveOverwriteDone ==
    /\ TableWriteCall
    /\ table.file_type = "DELTA"
    /\ store.exists
    /\ last'.mode = "OVERWRITE"
    /\ \/ last'.replace_where /\ ~ last'.partition_filters
       \/ last'.partition_filters /\ ~ last'.replace_where /\ Partitioned(table)
    /\ last'.outcome = "ok"

\* C13: a successful selective overwrite of a DELTA table removes exactly
\* the stored rows that match the predicate / partition filters, leaves the
\* rows that do not match, and adds the rows of df: read_table returns the
\* old rows that do not match plus the rows of df (in the columns of the
\* table's schema after the write, which under schema evolution STRICT are
\* the columns before it).
C13_SelectiveOverwriteKeepsNonMatching ==
    [][SelectiveOverwriteDone =>
          /\ ReadReturns(table', store',
                         UnionRows(SchemaNames(store'.schema),
                                   Untag(RowsNotMatching(store, FilterOf(last'))),
                                   last'.df.rows))
          /\ last'.schema_evolution = "STRICT" =>
                store'.rows = RowsNotMatching(store, FilterOf(last'))
                                  (+) Tag(last'.df.schema, last'.df.rows)]_vars

\* a selective overwrite with replace_where after an append: of the two
\* rows held one was replaced and one, which does not match, is still there
C13_Witness ==
    /\ last.op = "write_table"
    /\ last.mode = "OVERWRITE"
    /\ last.replace_where /\ ~ last.partition_filters
    /\ last.outcome = "ok"
    /\ table.file_type = "DELTA"
    /\ calls = 2
    /\ BagCardinality(store.rows) = 2
    /\ \E r \in DOMAIN store.rows : ~ Matches(last.filters[2], r)
    /\ \A r \in DOMAIN last.df.rows : Satisfies(last.filters[2], r)

\* a write_table call with mode OVERWRITE and both partition_filters and
\* replace_where to a DELTA table
BothFiltersCall ==
    /\ TableWriteCall
    /\ table.file_type = "DELTA"
    /\ last'.mode = "OVERWRITE"
    /\ last'.partition_filters /\ last'.replace_where

\* a write_table call in which the two arguments are to be ignored
FiltersIgnoredCall ==
    /\ TableWriteCall
    /\ last'.mode = "APPEND" \/ table.file_type # "DELTA"

\* the call had the outcome and the effect r
SameEffect(r) ==
    /\ last'.outcome = r.outcome
    /\ last'.writes = r.writes
    /\ store' = r.store
    /\ table' = r.table

\* the call had the outcome and the effect of the same call without
\* partition_filters and replace_where
EffectWithoutFilters ==
    SameEffect(UCClient_write_table(table, store, last'.df, last'.mode,
                                    last'.schema_evolution, NoFilter, NoFilter, TRUE))

\* C14 (as stated): write_table on a DELTA table with mode OVERWRITE and
\* both partition_filters and replace_where raises UnsupportedOperationError
\* before any physical write and leaves stored data and catalog unchanged;
\* with mode APPEND, or on a table that is not DELTA, the two arguments have
\* no effect on what is written.
C14_BothFiltersRaiseUnsupported ==
    [][/\ BothFiltersCall =>
             /\ last'.outcome = "UnsupportedOperationError"
             /\ last'.writes = 0
             /\ store' = store
             /\ table' = table
       /\ FiltersIgnoredCall => EffectWithoutFilters]_vars

\* C14 (amended): such a call raises before any physical write and leaves
\* stored data and catalog unchanged; the error is UnsupportedOperationError
\* unless schema evolution is STRICT and the DataFrame, all of whose column
\* types have a catalog type, has a schema that differs from the recorded
\* columns, in which case the schema check, which comes first, raises
\* SchemaMismatchError.  With mode APPEND, or on a table that is not DELTA,
\* the two arguments have no effect on what is written.
C14_BothFiltersRaiseBeforeWrite ==
    [][/\ BothFiltersCall =>
             /\ last'.outcome =
                    IF /\ last'.schema_evolution = "STRICT"
                       /\ SchemaSupported(last'.df.schema)
                       /\ SchemaDiffers(last'.df.schema, table.columns)
                    THEN "SchemaMismatchError"
                    ELSE "UnsupportedOperationError"
             /\ last'.writes = 0
             /\ store' = store
             /\ table' = table
       /\ FiltersIgnoredCall => EffectWithoutFilters]_vars

\* a call with both arguments and a DataFrame of the recorded schema was
\* refused on a DELTA table that holds data
C14_Witness ==
    /\ last.op = "write_table"
    /\ last.mode = "OVERWRITE"
    /\ last.partition_filters /\ last.replace_where
    /\ table.exists /\ store.exists
    /\ table.file_type = "DELTA"
    /\ SchemaEquals(last.df.schema, table.columns)
    /\ last.outcome = "UnsupportedOperationError"
    /\ last.writes = 0

\* a create_as_table call
CreateCall == last = Idle /\ last'.op = "create_as_table"

\* the four refusals of create_as_table: table_type MANAGED, no location, a
\* location that does not start with "file://", partition_cols for a file
\* type other than DELTA and PARQUET
CreateRefusalCase(l) ==
    \/ l.table_type = "MANAGED"
    \/ l.location = NoLocation
    \/ ~ StartsWithFile(l.location)
    \/ l.partition_cols.given /\ l.file_type \notin {"DELTA", "PARQUET"}

\* C15: in each of the four cases create_as_table raises
\* UnsupportedOperationError before any catalog request and any physical
\* write: no request is sent, nothing is written, the catalog and the stored
\* data are as before; a call with every default argument (DELTA, EXTERNAL,
\* no location, no partition_cols) raises.
C15_CreateRefusedBeforeRequest ==
    [][(CreateCall /\ CreateRefusalCase(last')) =>
          /\ last'.outcome = "UnsupportedOperationError"
          /\ last'.create_requests = 0
          /\ last'.writes = 0
          /\ last'.updates = 0
          /\ table' = table
          /\ store' = store]_vars

\* C15 witness: a call refused for its partition_cols alone (EXTERNAL, a
\* file:// location, file type CSV) on a name that is not registered
C15_Witness ==
    /\ last # Idle
    /\ last.op = "create_as_table"
    /\ last.table_type = "EXTERNAL"
    /\ StartsWithFile(last.location)
    /\ last.partition_cols.given
    /\ last.file_type = "CSV"
    /\ last.outcome = "UnsupportedOperationError"
    /\ ~ table.exists

\* a create_as_table call with the name of a registered table
CreateAgainCall == CreateCall /\ table.exists

\* the call changed neither the catalog nor the stored data
NothingChanged ==
    /\ last'.writes = 0
    /\ last'.updates = 0
    /\ table' = table
    /\ store' = store

\* C16 as stated: create_as_table with the name of a registered table raises
\* AlreadyExistsError and changes nothing.
C16_CreateAgainRaisesAlreadyExists ==
    [][CreateAgainCall => (last'.outcome = "AlreadyExistsError" /\ NothingChanged)]_vars

\* C16: create_as_table with the name of a registered table changes nothing:
\* the catalog record is unchanged and no data is written.  It raises
\* AlreadyExistsError, from the one catalog request it sends, when its
\* arguments pass the tests that precede the request, and
\* UnsupportedOperationError without a request when they do not.
C16_CreateAgainChangesNothing ==
    [][CreateAgainCall =>
          /\ NothingChanged
          /\ IF CreateRefusalCase(last') \/ ~ SchemaSupported(last'.df.schema)
                 THEN last'.outcome = "UnsupportedOperationError"
                      /\ last'.create_requests = 0
                 ELSE last'.outcome = "AlreadyExistsError"
                      /\ last'.create_requests = 1]_vars

\* C16 witness: a call refused by the catalog while the location holds data
C16_Witness ==
    /\ last # Idle
    /\ last.op = "create_as_table"
    /\ last.outcome = "AlreadyExistsError"
    /\ table.exists
    /\ store.exists
    /\ BagCardinality(last.df.rows) >= 1

\* a create_as_table call for a free name whose arguments pass the tests and
\* whose partition_cols name columns of df
PartitionedCreateCall ==
    /\ CreateCall
    /\ ~ table.exists
    /\ ~ CreateRefusalCase(last')
    /\ SchemaSupported(last'.df.schema)
    /\ last'.partition_cols.given
    /\ Range(last'.partition_cols.cols) \subseteq SchemaNames(last'.df.schema)

\* C17: create_as_table with partition_cols = [p0, ..., pk] registers the
\* columns of df, each pi with partition_index i and every other column with
\* none, writes the data partitioned by p0, ..., pk in that order, and
\* read_table afterwards returns the rows of df.
C17_CreatePartitionedIndexesAndOrder ==
    [][PartitionedCreateCall =>
          /\ last'.outcome = "ok"
          /\ table'.exists
          /\ ColumnsMatchSchema(table'.columns, last'.df.schema)
          /\ \A i \in 1..Len(table'.columns) :
                table'.columns[i].partition_index =
                    IF table'.columns[i].name \in Range(last'.partition_cols.cols)
                        THEN IndexOf(last'.partition_cols.cols, table'.columns[i].name)
                        ELSE None
          /\ PartitionBy(table') = last'.partition_cols.cols
          /\ last'.writes = 1
          /\ ReadReturns(table', store', last'.df.rows)]_vars

\* C17 witness: a table created from a DataFrame with the columns a, b, p and
\* partition_cols [p, a], the reverse of the DataFrame's column order
C17_Witness ==
    /\ last # Idle
    /\ last.op = "create_as_table"
    /\ last.outcome = "ok"
    /\ last.partition_cols = PartitionCols(<<"p", "a">>)
    /\ SchemaNames(last.df.schema) = {"a", "b", "p"}
    /\ PartitionBy(table) = <<"p", "a">>

\* a register_as_table call
RegisterCall == last = Idle /\ last'.op = "register_as_table"

\* the path is neither a "file://" location nor an absolute path
NeitherForm(filepath) == ~ StartsWithFile(filepath) /\ ~ StartsWith(filepath, <<"/">>)

\* C18: a register_as_table call that succeeds registers an EXTERNAL table
\* whose storage_location is the path itself when it starts with "file://"
\* and "file://" followed by the path when it starts with "/"; for a path of
\* neither form the call raises UnsupportedOperationError, reads no file and
\* sends no request to the catalog.
C18_RegisterLocationForm ==
    [][RegisterCall =>
          /\ last'.outcome = "ok" =>
                /\ table'.exists
                /\ table'.table_type = "EXTERNAL"
                /\ StartsWithFile(table'.storage_location)
                /\ table'.storage_location =
                       IF StartsWithFile(last'.filepath) THEN last'.filepath
                       ELSE <<"file://">> \o last'.filepath
          /\ NeitherForm(last'.filepath) =>
                /\ last'.outcome = "UnsupportedOperationError"
                /\ last'.reads = 0
                /\ last'.create_requests = 0
                /\ table' = table]_vars

\* C18 witness: a table registered from an absolute path without "file://"
C18_Witness ==
    /\ last # Idle
    /\ last.op = "register_as_table"
    /\ last.outcome = "ok"
    /\ last.filepath = AbsolutePath
    /\ table.exists
    /\ table.storage_location = <<"file://">> \o AbsolutePath

\* C19: a register_as_table call leaves the data at filepath as it is; when
\* it succeeds the recorded columns are those of the file's schema at
\* positions 0..n-1 in the file's column order, a column has a partition
\* index exactly when partition_cols names it, and read_table on the
\* registered table returns the rows of the file.
C19_RegisterKeepsDataAndDerivesColumns ==
    [][RegisterCall =>
          /\ store' = store
          /\ last'.outcome = "ok" =>
                /\ ColumnsMatchSchema(table'.columns, store.schema)
                /\ \A i \in 1..Len(table'.columns) :
                      /\ table'.columns[i].position = i - 1
                      /\ table'.columns[i].partition_index # None
                             <=> /\ last'.partition_cols.given
                                 /\ table'.columns[i].name
                                        \in Range(last'.partition_cols.cols)
                /\ ReadReturns(table', store', Untag(store.rows))]_vars

\* C19 witness: a file with the columns a, b, p registered with
\* partition_cols [p, a]
C19_Witness ==
    /\ last # Idle
    /\ last.op = "register_as_table"
    /\ last.outcome = "ok"
    /\ last.partition_cols = PartitionCols(<<"p", "a">>)
    /\ store.exists
    /\ SchemaNames(store.schema) = {"a", "b", "p"}
    /\ PartitionBy(table) = <<"p", "a">>

\* a merge_table call
MergeCall == last = Idle /\ last'.op = "merge_table"

\* the three conditions of a merge: a DELTA table, a DataFrame whose schema
\* equals the recorded columns, a merge condition or default merge columns
MergeConditionsHold(tbl, df, merge_condition) ==
    /\ tbl.exists
    /\ tbl.file_type = "DELTA"
    /\ ~ SchemaDiffers(df.schema, tbl.columns)
    /\ merge_condition.given \/ Len(default_merge_columns(tbl)) >= 1

\* C20: merge_table raises and writes nothing unless the table's file type
\* is DELTA, the DataFrame's schema equals the recorded columns and either
\* merge_condition is given or the table has a default merge column.
C20_MergeRaisesUnlessConditionsHold ==
    [][(MergeCall /\ ~ MergeConditionsHold(table, last'.df, last'.merge_condition)) =>
          /\ last'.outcome # "ok"
          /\ store' = store
          /\ table' = table]_vars

\* C20 witness: a call without merge_condition on a DELTA table that has no
\* default merge columns, with a DataFrame of the table's schema, raised
C20_Witness ==
    /\ last # Idle
    /\ last.op = "merge_table"
    /\ ~ last.merge_condition.given
    /\ table.exists
    /\ table.file_type = "DELTA"
    /\ ~ SchemaDiffers(last.df.schema, table.columns)
    /\ Len(default_merge_columns(table)) = 0
    /\ last.outcome = "Exception"

(***************************************************************************)
(* The REST functions against the catalog server.                          *)
(***************************************************************************)
CreateOps == {"create_catalog", "create_schema", "create_table"}
GetOps == {"get_catalog", "get_schema", "get_table"}
UpdateOps == {"update_catalog", "update_schema"}
DeleteOps == {"delete_catalog", "delete_schema", "delete_table"}

\* a call of one of the functions ops that the server answered itself
ApiStep(ops) == last = Idle /\ last' # Idle /\ last'.op \in ops /\ ~ last'.fault

\* the path of the entity a call names
Named(c) == c.parent \o <<c.name>>

\* the get function of a kind called against srv
GetOp(kind) ==
    CASE kind = "catalog" -> "get_catalog"
      [] kind = "schema" -> "get_schema"
      [] kind = "table" -> "get_table"

GetOf(srv, kind, path) == Handle(GetOp(kind), ServerGet(srv, kind, path).response)

\* the list function of a kind called against srv
ListOf(srv, kind, parent) == ListFrom(srv, kind, parent, Null, <<>>)

\* get of the entity raises DoesNotExistError
GetRaisesDoesNotExist(srv, kind, path) ==
    GetOf(srv, kind, path) = ApiRaised("DoesNotExistError")

\* the list of the parent has n entries more after the step than before
ListGrewBy(kind, parent, n) ==
    /\ ListOf(server, kind, parent).outcome = "ok"
    /\ ListOf(server', kind, parent).outcome = "ok"
    /\ Len(ListOf(server', kind, parent).value)
           = Len(ListOf(server, kind, parent).value) + n

\* C21: after a successful create of a catalog, schema or table, get returns
\* the entity and the list of its parent has exactly one entry more; a
\* create with the name of an entity that exists under the same parent
\* raises AlreadyExistsError and leaves every entity and list unchanged; get
\* of a name that does not exist raises DoesNotExistError.
C21_CreateGetList ==
    [][/\ ApiStep(CreateOps) =>
             /\ last'.outcome = "ok" =>
                   /\ GetOf(server', KindOf(last'.op), Named(last'.call))
                          = ApiReturned(last'.value)
                   /\ last'.value.name = last'.call.name
                   /\ ListGrewBy(KindOf(last'.op), last'.call.parent, 1)
             /\ Exists(server, KindOf(last'.op), Named(last'.call)) =>
                   /\ last'.outcome = "AlreadyExistsError"
                   /\ server' = server
       /\ (ApiStep(GetOps) /\ ~ Exists(server, KindOf(last'.op), Named(last'.call))) =>
             last'.outcome = "DoesNotExistError"]_vars

\* C21 witness: a table created in a schema that was created before, and the
\* same create again that raised
C21_Witness ==
    /\ last # Idle
    /\ last.op = "create_table"
    /\ last.call.parent = <<"c", "s">>
    /\ ~ last.fault
    /\ last.outcome = "AlreadyExistsError"
    /\ Exists(server, "table", <<"c", "s", "t">>)

\* the delete of the step deleted the entity: delete_table returned, or
\* delete_catalog / delete_schema returned True
Deleted(l) == l.outcome = "ok" /\ (l.op = "delete_table" \/ l.value = TRUE)

\* C22: after a successful delete of a catalog, schema or table, get of the
\* name raises DoesNotExistError and the list of its parent has exactly one
\* entry less; a delete of a name that does not exist (a second delete too)
\* raises DoesNotExistError and leaves every list unchanged.
C22_DeleteGetList ==
    [][ApiStep(DeleteOps) =>
          /\ Deleted(last') =>
                /\ GetRaisesDoesNotExist(server', KindOf(last'.op), Named(last'.call))
                /\ ListGrewBy(KindOf(last'.op), last'.call.parent, -1)
          /\ ~ Exists(server, KindOf(last'.op), Named(last'.call)) =>
                /\ last'.outcome = "DoesNotExistError"
                /\ server' = server]_vars

\* a delete_catalog or delete_schema call, answered by the server, of an
\* entity that exists
ForceCall ==
    /\ ApiStep({"delete_catalog", "delete_schema"})
    /\ Exists(server, KindOf(last'.op), Named(last'.call))

\* C23: delete_catalog on a catalog with schemas and delete_schema on a
\* schema with tables return False without raising and delete nothing when
\* force is False, and delete the entity and return True when force is True;
\* on an empty catalog or schema they delete and return True with either
\* value of force.
C23_DeleteForce ==
    [][ForceCall =>
          IF Within(server, Named(last'.call)) # {} /\ ~ last'.call.force
              THEN /\ last'.outcome = "ok"
                   /\ last'.value = FALSE
                   /\ server' = server
          ELSE /\ last'.outcome = "ok"
               /\ last'.value = TRUE
               /\ ~ Exists(server', KindOf(last'.op), Named(last'.call))
               /\ Within(server', Named(last'.call)) = {}]_vars

\* the path an update call renames to
Target(c) == c.parent \o <<c.new.name>>

\* what an update call c of an entity of a kind does, l being its record
UpdateHolds(c, kind, l) ==
    IF ~ Exists(server, kind, Named(c))
        THEN l.outcome = "DoesNotExistError" /\ server' = server
    ELSE IF c.new.name # c.name /\ Exists(server, kind, Target(c))
        THEN l.outcome = "AlreadyExistsError" /\ server' = server
    ELSE IF c.new.name # c.name
        THEN /\ l.outcome = "ok"
             /\ GetRaisesDoesNotExist(server', kind, Named(c))
             /\ GetOf(server', kind, Target(c)) = ApiReturned(l.value)
             /\ l.value.name = c.new.name
             /\ ListGrewBy(kind, c.parent, 0)
    ELSE /\ l.outcome = "ok"
         /\ GetOf(server', kind, Named(c)) = ApiReturned(l.value)
         /\ c.new.comment \notin {Null, ""} => l.value.comment = c.new.comment
         /\ ListGrewBy(kind, c.parent, 0)

\* C24: update_catalog and update_schema with a new name rename the entity
\* (get of the old name raises DoesNotExistError, get of the new name
\* succeeds, the list keeps its size); with the name unchanged they update
\* the comment without raising; an update of an entity that does not exist
\* raises DoesNotExistError and a rename onto the name of an existing entity
\* raises AlreadyExistsError, both leaving every entity unchanged.
C24_UpdateRenames ==
    [][ApiStep(UpdateOps) => UpdateHolds(last'.call, KindOf(last'.op), last')]_vars

\* C24 witness: the schema default, holding a table, renamed to s
C24_Witness ==
    /\ last # Idle
    /\ last.op = "update_schema"
    /\ ~ last.fault
    /\ last.outcome = "ok"
    /\ last.call.name = "default"
    /\ last.call.new.name = "s"
    /\ last.below >= 1
    /\ Exists(server, "schema", <<"unity", "s">>)
    /\ ~ Exists(server, "schema", <<"unity", "default">>)
(***************************************************************************)
(* uc_wrapper.                                                             *)
(***************************************************************************)
\* a write_table call of uc_wrapper with APPEND and STRICT on a DELTA table
\* or a partitioned PARQUET table, with a DataFrame whose schema differs
\* from the recorded columns
WrapperStrictAppendMismatch ==
    /\ last = Idle
    /\ last'.op = "uc_wrapper_write_table"
    /\ last'.mode = "APPEND"
    /\ last'.schema_evolution = "STRICT"
    /\ table.exists
    /\ table.file_type = "DELTA" \/ (table.file_type = "PARQUET" /\ Partitioned(table))
    /\ SchemaDiffers(last'.df.schema, table.columns)

\* C25: in uc_wrapper a write_table call with APPEND and STRICT on a DELTA
\* table or a partitioned PARQUET table raises SchemaMismatchError and
\* writes nothing whenever the DataFrame's schema differs from the recorded
\* columns, also when the DataFrame has fewer or more columns and the shared
\* leading columns agree.
C25_WrapperStrictAppendRaises ==
    [][WrapperStrictAppendMismatch =>
          /\ last'.outcome = "SchemaMismatchError"
          /\ last'.writes = 0
          /\ store' = store]_vars
(***************************************************************************)
(* Responses that are not OK.                                              *)
(***************************************************************************)
\* the functions that return a parsed entity, delete_table, list_schemas and
\* list_tables; those of them that check for NOT_FOUND, for ALREADY_EXISTS
CheckedOps ==
    CreateOps \cup GetOps \cup UpdateOps \cup {"delete_table", "list_schemas", "list_tables"}
ChecksNotFound == GetOps \cup UpdateOps \cup {"delete_table", "list_schemas", "list_tables"}
ChecksAlreadyExists == CreateOps \cup UpdateOps

\* error_code values that are NOT_FOUND / ALREADY_EXISTS in some case
NotFoundCodes == {"NOT_FOUND", "not_found", "nOT_fOUND"}
AlreadyExistsCodes == {"ALREADY_EXISTS", "already_exists"}

\* a call of one of these functions that got a response that is not OK
NotOkStep ==
    /\ last = Idle
    /\ last' # Idle
    /\ last'.op \in CheckedOps
    /\ ~ last'.response.ok

\* the exception the claim names for a response
Named_Exception(op, response) ==
    IF response.error_code \in NotFoundCodes /\ op \in ChecksNotFound
        THEN "DoesNotExistError"
    ELSE IF response.error_code \in AlreadyExistsCodes /\ op \in ChecksAlreadyExists
        THEN "AlreadyExistsError"
    ELSE "Exception"

\* C26 (as stated): create_*, get_*, update_*, delete_table, list_schemas and
\* list_tables never return normally from a response that is not OK: they
\* raise DoesNotExistError for error_code NOT_FOUND in any case when the
\* function checks for it, AlreadyExistsError for ALREADY_EXISTS when the
\* function checks for it, and Exception for every other such response.
C26_NotOkRaisesOneOfThree ==
    [][NotOkStep => last'.outcome = Named_Exception(last'.op, last'.response)]_vars

\* C26 (amended): the same for a response whose body is a JSON object with
\* an error_code that is a string, or with none; a response that is not OK
\* and whose body is not JSON raises the JSONDecodeError of response.json(),
\* one whose error_code is null the AttributeError of .upper(); no such call
\* returns normally.
C26_NotOkRaises ==
    [][NotOkStep =>
          /\ last'.outcome # "ok"
          /\ last'.outcome =
                 IF ~ last'.response.json THEN "JSONDecodeError"
                 ELSE IF last'.response.error_code = Null THEN "AttributeError"
                 ELSE Named_Exception(last'.op, last'.response)]_vars

\* C26 witness: update_schema answered with error_code not_found in lower
\* case raised DoesNotExistError
C26_Witness ==
    /\ last # Idle
    /\ last.op = "update_schema"
    /\ last.fault
    /\ last.response.error_code = "not_found"
    /\ last.outcome = "DoesNotExistError"
(***************************************************************************)
(* check_schema_equality as a relation on column lists.                    *)
(***************************************************************************)
\* the orders of a list
Orders(l) ==
    {[i \in 1..Len(l) |-> l[p[i]]] :
        p \in {q \in [1..Len(l) -> 1..Len(l)] :
                  \A i, j \in 1..Len(l) : i # j => q[i] # q[j]}}

\* the list with other values of nullable and partition_index, and of the
\* precision of the columns that are not DECIMAL
Redecorated(l) ==
    [i \in 1..Len(l) |->
        [l[i] EXCEPT !.nullable = FALSE, !.partition_index = 0,
                     !.type_precision = IF l[i].data_type = "DECIMAL" THEN @ ELSE 5]]

\* no two columns of the list share a position
DistinctPositions(l) == \A i, j \in 1..Len(l) : i # j => l[i].position # l[j].position

\* reflexive, symmetric, transitive; False for different lengths; the same
\* for other values of nullable and partition_index
EquivalenceOn(l, r, result) ==
    /\ check_schema_equality(l, l)
    /\ check_schema_equality(r, l) = result
    /\ result => \A t \in ColumnLists :
                     check_schema_equality(r, t) => check_schema_equality(l, t)
    /\ Len(l) # Len(r) => ~ result
    /\ check_schema_equality(Redecorated(l), r) = result
    /\ check_schema_equality(l, Redecorated(r)) = result

\* the result is the same for every order of the left list
SameInEveryOrder(l, r, result) ==
    \A o \in Orders(l) : check_schema_equality(o, r) = result
                             /\ check_schema_equality(r, o) = result

Compared == last.op = "check_schema_equality"

\* C27 (as stated): check_schema_equality is an equivalence relation on
\* column lists that depends only on the multiset of (position, name, data
\* type, DECIMAL precision/scale): reflexive, symmetric, transitive, the same
\* for every order of a list and for every nullable and partition_index,
\* and False for lists of different length.
C27_EquivalenceInEveryOrder ==
    Compared =>
        /\ EquivalenceOn(last.left, last.right, last.result)
        /\ SameInEveryOrder(last.left, last.right, last.result)

\* C27 (amended): an equivalence relation on all column lists; the same for
\* every order of a list no two columns of which share a position.
C27_EquivalenceInEveryOrderOfDistinctPositions ==
    Compared =>
        /\ EquivalenceOn(last.left, last.right, last.result)
        /\ DistinctPositions(last.left) =>
               SameInEveryOrder(last.left, last.right, last.result)

\* C27 witness: two columns at the positions 1 and 0 compared equal to the
\* same columns listed in the other order
C27_Witness ==
    /\ Compared
    /\ Len(last.left) = 2
    /\ last.left[1].position = 1
    /\ last.left[2].position = 0
    /\ last.left[1].data_type = "DECIMAL"
    /\ last.right = <<last.left[2], last.left[1]>>
    /\ last.result
(***************************************************************************)
(* The order of the physical write and the catalog update.                 *)
(***************************************************************************)
\* what a write_table call l of the client shows, r being the result of
\* dataframe.write_table on the same arguments
WriteThenUpdate(r, l) ==
    /\ table' # table =>
          /\ l.outcome = "ok"
          /\ l.writes = 1
          /\ r.outcome = "ok"
          /\ table' = [table EXCEPT !.columns = r.columns]
    /\ l.outcome # "ok" => table' = table
    /\ r.outcome # "ok" => l.outcome = r.outcome /\ l.updates = 0
    /\ (r.outcome = "ok" /\ ~ r.is_none) => l.outcome \in {"ok", "Exception"}
    /\ l.outcome = "Exception" =>
          /\ r.outcome = "ok"
          /\ l.writes = 1
          /\ l.updates = 0
          /\ store' = r.store
          /\ ~ SchemaEquals(store'.schema, table'.columns)

\* C28: in UCClient.write_table the physical write precedes the catalog
\* update: the recorded columns change only after the physical write has
\* completed, never when write_table raised; when the catalog update fails
\* the call raises Exception while the written data stay, so that the
\* schema of the stored data and the recorded columns differ.
C28_WriteBeforeCatalogUpdate ==
    [][(WriteCall /\ table.exists) =>
          WriteThenUpdate(write_table(table, store, last'.df, last'.mode,
                                      last'.schema_evolution,
                                      last'.filters[1], last'.filters[2]),
                          last')]_vars

\* C28 witness: a write whose catalog update failed: Exception, the data
\* written, the recorded columns not those of the data
C28_Witness ==
    /\ last.op = "write_table"
    /\ last.outcome = "Exception"
    /\ last.writes = 1
    /\ last.updates = 0
    /\ store.exists
    /\ Untag(store.rows) = last.df.rows
    /\ ~ SchemaEquals(store.schema, table.columns)
(***************************************************************************)
(* Tables at a location outside the local file system.                     *)
(***************************************************************************)
DataOps == {"read_table", "scan_table", "write_table", "merge_table"}

\* the registered table's location does not start with file://
NonLocal == table.exists /\ ~ StartsWithFile(table.storage_location)

\* the call l raised before anything was read or written
NothingTouched(l) ==
    /\ store' = store
    /\ table' = table
    /\ l.op \in {"read_table", "scan_table"} => l.rows = EmptyBag /\ l.schema = <<>>
    /\ l.op = "write_table" => l.writes = 0 /\ l.writer = "none" /\ l.updates = 0
    /\ l.op = "merge_table" => l.predicate = <<>>

\* C30: read_table, scan_table, write_table and merge_table on a table whose
\* storage_location does not start with file:// raise
\* UnsupportedOperationError whatever the file type, the DataFrame, the mode
\* and the data at the location are (the test precedes every other check of
\* the functions), and nothing is read or written: no rows are returned, no
\* writer is called, the stored data and the table record stay.
C30_NonLocalRaises ==
    [][(last = Idle /\ NonLocal /\ last'.op \in DataOps) =>
          /\ last'.outcome = "UnsupportedOperationError"
          /\ NothingTouched(last')]_vars

\* C30 witness: an append of a DataFrame with the table's columns to a DELTA
\* table at a remote location holding data is refused
C30_Witness ==
    /\ last.op = "write_table"
    /\ NonLocal
    /\ table.storage_location = RemoteLocation
    /\ table.file_type = "DELTA"
    /\ store.exists
    /\ SchemaEquals(last.df.schema, table.columns)
    /\ last.mode = "APPEND"
    /\ last.schema_evolution = "STRICT"
    /\ last.outcome = "UnsupportedOperationError"
    /\ last.writes = 0
(***************************************************************************)
(* Paging of the list functions.                                           *)
(***************************************************************************)
InListing == last # Idle /\ last.op \in ListOps

RECURSIVE EntriesOf(_)
\* the entries of the pages, in page order
EntriesOf(pages) ==
    IF pages = <<>> THEN <<>>
    ELSE EntriesOf(SubSeq(pages, 1, Len(pages) - 1)) \o pages[Len(pages)].entries

\* null or the empty string
EndsListing(token) == token \in {Null, ""}

\* the first request carries no token, every later one the token of the
\* page before it
TokensPassed(l) ==
    \A i \in 1..Len(l.sent) :
        l.sent[i] = IF i = 1 THEN Null ELSE l.pages[i - 1].next_page_token

\* requests go on exactly while the tokens returned do not end the listing
PagedToTheEnd(l) ==
    /\ \A i \in 1..(Len(l.pages) - 1) : ~ EndsListing(l.pages[i].next_page_token)
    /\ l.pc = "request" =>
          /\ Len(l.sent) = Len(l.pages)
          /\ l.pages # <<>> => ~ EndsListing(l.pages[Len(l.pages)].next_page_token)
          /\ l.token = IF l.pages = <<>> THEN Null
                       ELSE l.pages[Len(l.pages)].next_page_token
    /\ (l.pc = "done" /\ l.outcome = "ok") =>
          /\ l.pages # <<>>
          /\ Len(l.sent) = Len(l.pages)
          /\ EndsListing(l.pages[Len(l.pages)].next_page_token)
    /\ (l.pc = "done" /\ l.outcome # "ok") => Len(l.sent) = Len(l.pages) + 1

\* the entries collected, and returned, are those of the pages in page order
Concatenated(l) ==
    /\ l.acc = EntriesOf(l.pages)
    /\ (l.pc = "done" /\ l.outcome = "ok") => l.value = EntriesOf(l.pages)

\* C29: list_catalogs, list_schemas and list_tables request pages until the
\* server returns a next_page_token that is null or "", passing each
\* returned token as page_token of the next request (the first request
\* carries None); when the server returns such a token after finitely many
\* pages the call terminates, and a call that returns returns the
\* concatenation of all pages' entries in page order, none dropped or
\* duplicated.
C29_PagedListing ==
    /\ [](InListing => TokensPassed(last) /\ PagedToTheEnd(last) /\ Concatenated(last))
    /\ (InListing /\ last.pc = "request") ~> (InListing /\ last.pc = "done")

\* C29 witness: a listing over MaxPages pages that ended with the token "",
\* the same entity on two of its pages
C29_Witness ==
    /\ InListing
    /\ last.pc = "done"
    /\ last.outcome = "ok"
    /\ Len(last.pages) = MaxPages
    /\ last.pages[MaxPages].next_page_token = ""
    /\ last.pages[1].next_page_token # last.pages[2].next_page_token
    /\ last.pages[1].entries # <<>>
    /\ last.pages[1].entries = last.pages[2].entries
    /\ Len(last.value) >= 2
====
